---- MODULE Spec2Model ----
(***************************************************************************)
(* LureVision: the per-pixel underwater vision pipeline                    *)
(* (src/src/lib/aquaticVision.ts), the vision matrices and water presets   *)
(* (src/src/lib/constants.ts) and the species table                        *)
(* (src/src/lib/fishSpecies.ts).                                           *)
(*                                                                         *)
(* JavaScript numbers are modelled in fixed point: a real x is the integer *)
(* x * SCALE, SCALE = 10^6.  Matrix entries and rod weights are kept in    *)
(* hundredths (0.85 is 85), as they are written with two decimals.         *)
(***************************************************************************)
EXTENDS Integers, Sequences, FiniteSets, TLC

\* ------------------------------------------------------------------------
\* Fixed-point arithmetic standing for IEEE doubles
\* ------------------------------------------------------------------------

\* One unit of the fixed-point representation is 10^-6.
SCALE == 1000 * 1000

\* ln 2 in fixed point.
LN2 == 693000 + 147

Abs(x) == IF x < 0 THEN -x ELSE x
Sgn(x) == IF x < 0 THEN -1 ELSE 1
Min2(a, b) == IF a < b THEN a ELSE b
Max2(a, b) == IF a > b THEN a ELSE b

\* a * b for non-negative fixed-point a, b, split so that no 32-bit product
\* overflows.
MulAbs(a, b) ==
  LET ah == a \div 1000
      al == a % 1000
      bh == b \div 1000
      bl == b % 1000
  IN  ah * bh + ((ah * bl + al * bh + ((al * bl) \div 1000)) \div 1000)

\* The JavaScript product a * b.
MulFix(a, b) == Sgn(a) * Sgn(b) * MulAbs(Abs(a), Abs(b))

\* a / b for 0 <= a < b (a quotient below 1), by long division.
DivFrac(a, b) ==
  LET q1 == (a * 100) \div b
      r1 == (a * 100) % b
      q2 == (r1 * 100) \div b
      r2 == (r1 * 100) % b
      q3 == (r2 * 100) \div b
  IN  q1 * 10000 + q2 * 100 + q3

RECURSIVE Pow2(_)
Pow2(k) == IF k <= 0 THEN 1 ELSE 2 * Pow2(k - 1)

\* sum_{n >= i} r^n / n!, given term = r^(i-1)/(i-1)!
RECURSIVE ExpSeries(_, _, _)
ExpSeries(r, term, i) ==
  IF term = 0 \/ i > 14 THEN 0
  ELSE LET t == MulAbs(term, r) \div i IN t + ExpSeries(r, t, i + 1)

\* Math.exp(x): x = k ln2 + r with 0 <= r < ln2, e^x = 2^k e^r.
ExpFix(x) ==
  LET k  == x \div LN2
      r  == x - k * LN2
      er == SCALE + ExpSeries(r, SCALE, 1)
  IN  IF k < -31 THEN 0
      ELSE IF k < 0 THEN er \div Pow2(-k)
      ELSE er * Pow2(k)

\* m in [1, 2) and k with x = m 2^k, for x > 0.
RECURSIVE LnNorm(_, _)
LnNorm(m, k) ==
  IF m < SCALE THEN LnNorm(2 * m, k - 1)
  ELSE IF m >= 2 * SCALE THEN LnNorm(m \div 2, k + 1)
  ELSE <<m, k>>

\* z^i/i + z^(i+2)/(i+2) + ..., given zp = z^i
RECURSIVE AtanhSeries(_, _, _)
AtanhSeries(z2, zp, i) ==
  IF zp = 0 \/ i > 21 THEN 0
  ELSE (zp \div i) + AtanhSeries(z2, MulAbs(zp, z2), i + 2)

\* Math.log(x) for x > 0: ln x = k ln2 + 2 atanh((m - 1)/(m + 1)).
LnFix(x) ==
  LET mk == LnNorm(x, 0)
      m  == mk[1]
      z  == DivFrac(m - SCALE, m + SCALE)
  IN  mk[2] * LN2 + 2 * AtanhSeries(MulAbs(z, z), z, 1)

\* Math.pow(x, p) for p > 0: 0 at 0, exp(p ln x) above.
PowFix(x, p) == IF x <= 0 THEN 0 ELSE ExpFix(MulFix(p, LnFix(x)))

\* Math.round(x * 255) for a fixed-point x: floor(x * 255 + 0.5).
Round255(x) == (x * 255 + (SCALE \div 2)) \div SCALE

\* ------------------------------------------------------------------------
\* Static data: water presets, light presets, vision matrices, species
\* ------------------------------------------------------------------------

\* Attenuation coefficients in fixed point (0.30 is 300000).
WATER_CLARITY_PRESETS == <<
  [name |-> "clear", kR |-> 300000,  kG |-> 120000, kB |-> 80000],
  [name |-> "murky", kR |-> 600000,  kG |-> 350000, kB |-> 280000],
  [name |-> "muddy", kR |-> 1100000, kG |-> 700000, kB |-> 600000]
>>

LIGHT_CONDITIONS == <<
  [name |-> "bright",    rodBlend |-> 50000,  saturation |-> 1000000],
  [name |-> "overcast",  rodBlend |-> 320000, saturation |-> 700000],
  [name |-> "low-light", rodBlend |-> 750000, saturation |-> 320000]
>>

\* Matrix entries and rod weights in hundredths.
BASS_VISION_MATRICES == [
  visionType   |-> "dichromatic",
  coneCount    |-> 2,
  rgbToSpecies |-> << <<85, 25>>,
                     <<65, 92>>,
                     <<15, 45>> >>,
  speciesToRgb |-> << <<75, 15,  5>>,
                     <<25, 85, 45>> >>,
  rodWeights   |-> <<15, 75, 35>> ]

MONOCHROMATIC_VISION_MATRICES == [
  visionType   |-> "monochromatic",
  coneCount    |-> 1,
  rgbToSpecies |-> << <<25>>,
                     <<85>>,
                     <<90>> >>,
  speciesToRgb |-> << <<33, 33, 33>> >>,
  rodWeights   |-> <<20, 60, 80>> ]

TRICHROMATIC_VISION_MATRICES == [
  visionType   |-> "trichromatic",
  coneCount    |-> 3,
  rgbToSpecies |-> << <<75, 35, 95>>,
                     <<25, 90, 65>>,
                     <<95, 45, 15>> >>,
  speciesToRgb |-> << <<15,  5, 95>>,
                     <<25, 85, 45>>,
                     <<85, 25,  5>> >>,
  rodWeights   |-> <<30, 65, 50>> ]

\* A mis-authored tetrachromatic set: the matrices of four cone types under
\* a coneCount of 5.
TETRACHROMATIC_VISION_MATRICES_FiveCones == [
  visionType   |-> "tetrachromatic",
  coneCount    |-> 5,
  rgbToSpecies |-> << <<5, 5, 5, 5>>, <<5, 5, 5, 5>>, <<5, 5, 5, 5>> >>,
  speciesToRgb |-> << <<5, 5, 5>>, <<5, 5, 5>>, <<5, 5, 5>>, <<5, 5, 5>> >>,
  rodWeights   |-> <<15, 75, 35>> ]

TETRACHROMATIC_VISION_MATRICES == [
  visionType   |-> "tetrachromatic",
  coneCount    |-> 4,
  rgbToSpecies |-> << <<65, 15, 25, 85>>,
                     <<35, 45, 90, 75>>,
                     <<85, 95, 65, 25>> >>,
  speciesToRgb |-> << << 5,  5, 75>>,
                     <<10, 15, 85>>,
                     <<25, 80, 45>>,
                     <<80, 35, 10>> >>,
  rodWeights   |-> <<20, 55, 75>> ]

PENTACHROMATIC_VISION_MATRICES == [
  visionType   |-> "pentachromatic",
  coneCount    |-> 5,
  rgbToSpecies |-> << <<55, 25, 15, 35, 95>>,
                     <<25, 35, 55, 90, 65>>,
                     <<75, 85, 95, 45, 15>> >>,
  speciesToRgb |-> << << 5,  5, 65>>,
                     <<15, 10, 85>>,
                     <<10, 25, 90>>,
                     <<20, 85, 35>>,
                     <<90, 25,  5>> >>,
  rodWeights   |-> <<25, 50, 70>> ]

\* The species table: id, environment, visionType and salinity of each entry,
\* in the order of the source.
FISH_SPECIES == <<
  [id |-> "deep-sea-lanternfish", environment |-> "deep-sea", visionType |-> "monochromatic",
   salinity |-> [min |-> 35, max |-> 35, typical |-> 35]],
  [id |-> "pacific-hagfish", environment |-> "deep-sea", visionType |-> "monochromatic",
   salinity |-> [min |-> 35, max |-> 35, typical |-> 35]],
  [id |-> "largemouth-bass", environment |-> "freshwater", visionType |-> "dichromatic",
   salinity |-> [min |-> 0, max |-> 0, typical |-> 0]],
  [id |-> "rainbow-trout", environment |-> "anadromous", visionType |-> "tetrachromatic",
   salinity |-> [min |-> 0, max |-> 35, typical |-> 0]],
  [id |-> "walleye", environment |-> "freshwater", visionType |-> "dichromatic",
   salinity |-> [min |-> 0, max |-> 0, typical |-> 0]],
  [id |-> "redfish", environment |-> "saltwater", visionType |-> "dichromatic",
   salinity |-> [min |-> 15, max |-> 35, typical |-> 25]],
  [id |-> "tarpon", environment |-> "saltwater", visionType |-> "dichromatic",
   salinity |-> [min |-> 20, max |-> 35, typical |-> 35]],
  [id |-> "deep-sea-anglerfish", environment |-> "deep-sea", visionType |-> "monochromatic",
   salinity |-> [min |-> 35, max |-> 35, typical |-> 35]],
  [id |-> "northern-pike", environment |-> "freshwater", visionType |-> "dichromatic",
   salinity |-> [min |-> 0, max |-> 0, typical |-> 0]],
  [id |-> "striped-bass", environment |-> "anadromous", visionType |-> "dichromatic",
   salinity |-> [min |-> 0, max |-> 35, typical |-> 15]],
  [id |-> "bluegill", environment |-> "freshwater", visionType |-> "dichromatic",
   salinity |-> [min |-> 0, max |-> 0, typical |-> 0]],
  [id |-> "snook", environment |-> "saltwater", visionType |-> "dichromatic",
   salinity |-> [min |-> 5, max |-> 35, typical |-> 20]],
  [id |-> "goldfish", environment |-> "freshwater", visionType |-> "trichromatic",
   salinity |-> [min |-> 0, max |-> 0, typical |-> 0]],
  [id |-> "cichlid-haplochromis", environment |-> "freshwater", visionType |-> "trichromatic",
   salinity |-> [min |-> 0, max |-> 0, typical |-> 0]],
  [id |-> "parrotfish", environment |-> "saltwater", visionType |-> "trichromatic",
   salinity |-> [min |-> 35, max |-> 35, typical |-> 35]],
  [id |-> "zebrafish", environment |-> "freshwater", visionType |-> "tetrachromatic",
   salinity |-> [min |-> 0, max |-> 0, typical |-> 0]],
  [id |-> "atlantic-salmon", environment |-> "anadromous", visionType |-> "tetrachromatic",
   salinity |-> [min |-> 0, max |-> 35, typical |-> 0]],
  [id |-> "bluefin-tuna", environment |-> "saltwater", visionType |-> "tetrachromatic",
   salinity |-> [min |-> 35, max |-> 35, typical |-> 35]],
  [id |-> "reef-damselfish", environment |-> "saltwater", visionType |-> "pentachromatic",
   salinity |-> [min |-> 35, max |-> 35, typical |-> 35]],
  [id |-> "mantis-shrimp-family", environment |-> "saltwater", visionType |-> "pentachromatic",
   salinity |-> [min |-> 35, max |-> 35, typical |-> 35]],
  [id |-> "vampire-squid", environment |-> "deep-sea", visionType |-> "monochromatic",
   salinity |-> [min |-> 35, max |-> 35, typical |-> 35]],
  [id |-> "barreleye-fish", environment |-> "deep-sea", visionType |-> "monochromatic",
   salinity |-> [min |-> 35, max |-> 35, typical |-> 35]],
  [id |-> "silver-spinyfin", environment |-> "deep-sea", visionType |-> "trichromatic",
   salinity |-> [min |-> 35, max |-> 35, typical |-> 35]],
  [id |-> "gulper-eel", environment |-> "deep-sea", visionType |-> "monochromatic",
   salinity |-> [min |-> 35, max |-> 35, typical |-> 35]],
  [id |-> "migrating-lanternfish", environment |-> "deep-sea", visionType |-> "dichromatic",
   salinity |-> [min |-> 35, max |-> 35, typical |-> 35]],
  [id |-> "foureye-butterflyfish", environment |-> "saltwater", visionType |-> "tetrachromatic",
   salinity |-> [min |-> 35, max |-> 35, typical |-> 35]],
  [id |-> "queen-angelfish", environment |-> "saltwater", visionType |-> "tetrachromatic",
   salinity |-> [min |-> 35, max |-> 35, typical |-> 35]],
  [id |-> "bluehead-wrasse", environment |-> "saltwater", visionType |-> "tetrachromatic",
   salinity |-> [min |-> 35, max |-> 35, typical |-> 35]],
  [id |-> "regal-tang", environment |-> "saltwater", visionType |-> "tetrachromatic",
   salinity |-> [min |-> 35, max |-> 35, typical |-> 35]],
  [id |-> "great-barracuda", environment |-> "saltwater", visionType |-> "dichromatic",
   salinity |-> [min |-> 35, max |-> 35, typical |-> 35]],
  [id |-> "bull-shark", environment |-> "saltwater", visionType |-> "monochromatic",
   salinity |-> [min |-> 0, max |-> 35, typical |-> 25]],
  [id |-> "mahi-mahi", environment |-> "saltwater", visionType |-> "dichromatic",
   salinity |-> [min |-> 35, max |-> 35, typical |-> 35]],
  [id |-> "european-perch", environment |-> "freshwater", visionType |-> "trichromatic",
   salinity |-> [min |-> 0, max |-> 0, typical |-> 0]],
  [id |-> "common-carp", environment |-> "freshwater", visionType |-> "tetrachromatic",
   salinity |-> [min |-> 0, max |-> 0, typical |-> 0]],
  [id |-> "channel-catfish", environment |-> "freshwater", visionType |-> "dichromatic",
   salinity |-> [min |-> 0, max |-> 0, typical |-> 0]],
  [id |-> "northern-pike-enhanced", environment |-> "freshwater", visionType |-> "trichromatic",
   salinity |-> [min |-> 0, max |-> 0, typical |-> 0]],
  [id |-> "winter-flounder", environment |-> "saltwater", visionType |-> "trichromatic",
   salinity |-> [min |-> 30, max |-> 35, typical |-> 35]],
  [id |-> "elephant-nose-fish", environment |-> "freshwater", visionType |-> "dichromatic",
   salinity |-> [min |-> 0, max |-> 0, typical |-> 0]],
  [id |-> "starry-flounder", environment |-> "anadromous", visionType |-> "trichromatic",
   salinity |-> [min |-> 0, max |-> 35, typical |-> 15]],
  [id |-> "four-eyed-fish", environment |-> "saltwater", visionType |-> "tetrachromatic",
   salinity |-> [min |-> 15, max |-> 35, typical |-> 25]]
>>

\* The five matrix sets the processor module imports.
ShippedTables == [
  bass  |-> BASS_VISION_MATRICES,
  mono  |-> MONOCHROMATIC_VISION_MATRICES,
  tri   |-> TRICHROMATIC_VISION_MATRICES,
  tetra |-> TETRACHROMATIC_VISION_MATRICES,
  penta |-> PENTACHROMATIC_VISION_MATRICES ]

DEFAULT_PARAMS == [
  speciesId       |-> "largemouth-bass",
  depth           |-> 10 * SCALE,
  waterProperties |-> [clarity |-> WATER_CLARITY_PRESETS[1], salinity |-> 0],
  lightCondition  |-> LIGHT_CONDITIONS[1],
  backscatter     |-> FALSE ]

\* ------------------------------------------------------------------------
\* Species lookup
\* ------------------------------------------------------------------------

\* FISH_SPECIES.filter(species => species.environment === environment): the
\* entries that pass, in the order of the table.
FilterByEnvironment(environment) ==
  LET Test(species) == species.environment = environment
  IN  SelectSeq(FISH_SPECIES, Test)

getFreshwaterSpecies == FilterByEnvironment("freshwater")

\* A faulty getter: the anadromous species are listed with the saltwater
\* species.
getSaltwaterSpecies_WithAnadromous ==
  LET Test(species) == species.environment \in {"saltwater", "anadromous"}
  IN  SelectSeq(FISH_SPECIES, Test)

getSaltwaterSpecies == FilterByEnvironment("saltwater")

getAnadromousSpecies == FilterByEnvironment("anadromous")

getDeepSeaSpecies == FilterByEnvironment("deep-sea")

\* FISH_SPECIES.find(species => species.id === id): the first entry with that
\* id, as a sequence of one element; the empty sequence is undefined.
getSpeciesById(id) ==
  LET hits == {i \in 1..Len(FISH_SPECIES) : FISH_SPECIES[i].id = id}
  IN  IF hits = {} THEN <<>>
      ELSE <<FISH_SPECIES[CHOOSE i \in hits : \A j \in hits : i <= j]>>

\* A faulty lookup: an id that is not in the table gets the monochromatic
\* set instead of the bass set.
getSpeciesVisionMatrices_MissingIsMono(t, speciesId) ==
  LET species == getSpeciesById(speciesId)
  IN  IF Len(species) = 0 THEN t.mono
      ELSE CASE species[1].visionType = "monochromatic"  -> t.mono
             [] species[1].visionType = "dichromatic"    -> t.bass
             [] species[1].visionType = "trichromatic"   -> t.tri
             [] species[1].visionType = "tetrachromatic" -> t.tetra
             [] species[1].visionType = "pentachromatic" -> t.penta
             [] OTHER                                    -> t.bass

\* A faulty lookup: the trichromatic case falls through to the fallback.
getSpeciesVisionMatrices_NoTriCase(t, speciesId) ==
  LET species == getSpeciesById(speciesId)
  IN  IF Len(species) = 0 THEN t.bass
      ELSE CASE species[1].visionType = "monochromatic"  -> t.mono
             [] species[1].visionType = "dichromatic"    -> t.bass
             [] species[1].visionType = "tetrachromatic" -> t.tetra
             [] species[1].visionType = "pentachromatic" -> t.penta
             [] OTHER                                    -> t.bass

\* The matrix set of a species id; t holds the five imported matrix sets.
getSpeciesVisionMatrices(t, speciesId) ==
  LET species == getSpeciesById(speciesId)
  IN  IF Len(species) = 0 THEN t.bass
      ELSE CASE species[1].visionType = "monochromatic"  -> t.mono
             [] species[1].visionType = "dichromatic"    -> t.bass
             [] species[1].visionType = "trichromatic"   -> t.tri
             [] species[1].visionType = "tetrachromatic" -> t.tetra
             [] species[1].visionType = "pentachromatic" -> t.penta
             [] OTHER                                    -> t.bass

\* ------------------------------------------------------------------------
\* The per-pixel pipeline
\* ------------------------------------------------------------------------

\* What reading a missing array element gives (undefined).
Undefined == -1

\* data[i] of a typed array, i counted from 0.
ReadByte(data, i) == IF i + 1 <= Len(data) THEN data[i + 1] ELSE Undefined

\* matrix[row][col], both counted from 1 here; 0 stands in where the entry is
\* missing (the pixel is then NaN, see MatrixReadsUndefined).
Entry(matrix, row, col) ==
  IF row <= Len(matrix) /\ col <= Len(matrix[row]) THEN matrix[row][col] ELSE 0

\* The loops of rgbToSpeciesResponse and reconstructSpeciesVision index a row
\* that does not exist: matrix[row] is undefined and matrix[row][col] throws
\* a TypeError.
MatrixReadThrows(m) ==
  \/ m.coneCount >= 1 /\ Len(m.rgbToSpecies) < 3
  \/ \E c \in 1..m.coneCount : c > Len(m.speciesToRgb)

\* They read an entry that does not exist in an existing row: the value is
\* undefined and every channel computed from it is NaN.
MatrixReadsUndefined(m) ==
  \/ \E c \in 1..m.coneCount : \E r \in 1..3 :
        r <= Len(m.rgbToSpecies) /\ c > Len(m.rgbToSpecies[r])
  \/ \E c \in 1..m.coneCount :
        c <= Len(m.speciesToRgb) /\ Len(m.speciesToRgb[c]) < 3
  \/ Len(m.rodWeights) < 3

\* A faulty decoding: the power curve is used below the threshold as well.
srgbToLinear1_NoLinearSegment(c) ==
  PowFix(((c + 55000) * 1000) \div 1055, 2400000)

srgbToLinear1(c) ==
  IF c <= 40450 THEN (c * 100) \div 1292
  ELSE PowFix(((c + 55000) * 1000) \div 1055, 2400000)

srgbToLinear(srgb) == [k \in 1..3 |-> srgbToLinear1(srgb[k])]

\* A faulty encoding: the power segment uses a display gamma of 2.2.
linearToSrgb1_Gamma22(c) ==
  IF c <= 3130 THEN MulFix(c, 12920000)
  ELSE MulFix(1055000, PowFix(c, 454545)) - 55000

linearToSrgb1(c) ==
  IF c <= 3130 THEN MulFix(c, 12920000)
  ELSE MulFix(1055000, PowFix(c, 416667)) - 55000

\* A faulty encoding: the clamp to [0, 1] is left out.
linearToSrgb_NoClamp(linear) == [k \in 1..3 |-> linearToSrgb1(linear[k])]

linearToSrgb(linear) ==
  [k \in 1..3 |-> Max2(0, Min2(SCALE, linearToSrgb1(linear[k])))]

\* A faulty adjustment: the red and the blue coefficient change places.
calculateSalinityAdjustedK_RedBlueSwapped(baseK, salinity) ==
  LET salinityFactor == salinity \div 10
  IN  [kR |-> MulFix(baseK.kB, SCALE + MulFix(salinityFactor, 3000)),
       kG |-> MulFix(baseK.kG, SCALE + MulFix(salinityFactor, 5000)),
       kB |-> MulFix(baseK.kR, SCALE + MulFix(salinityFactor, 8000))]

calculateSalinityAdjustedK(baseK, salinity) ==
  LET salinityFactor == salinity \div 10
  IN  [kR |-> MulFix(baseK.kR, SCALE + MulFix(salinityFactor, 8000)),
       kG |-> MulFix(baseK.kG, SCALE + MulFix(salinityFactor, 5000)),
       kB |-> MulFix(baseK.kB, SCALE + MulFix(salinityFactor, 3000))]

\* A faulty attenuation: the path length is that of one foot whatever the
\* depth.
applyUnderwaterAttenuation_DepthIgnored(rgb, depthFeet, waterProperties) ==
  LET depthMeters     == 304800
      doublePassDepth == 2 * depthMeters
      adjustedK       == calculateSalinityAdjustedK(waterProperties.clarity,
                                                    waterProperties.salinity)
  IN  << MulFix(rgb[1], ExpFix(-MulFix(adjustedK.kR, doublePassDepth))),
         MulFix(rgb[2], ExpFix(-MulFix(adjustedK.kG, doublePassDepth))),
         MulFix(rgb[3], ExpFix(-MulFix(adjustedK.kB, doublePassDepth))) >>

applyUnderwaterAttenuation(rgb, depthFeet, waterProperties) ==
  LET depthMeters     == MulFix(depthFeet, 304800)
      doublePassDepth == 2 * depthMeters
      adjustedK       == calculateSalinityAdjustedK(waterProperties.clarity,
                                                    waterProperties.salinity)
  IN  << MulFix(rgb[1], ExpFix(-MulFix(adjustedK.kR, doublePassDepth))),
         MulFix(rgb[2], ExpFix(-MulFix(adjustedK.kG, doublePassDepth))),
         MulFix(rgb[3], ExpFix(-MulFix(adjustedK.kB, doublePassDepth))) >>

\* One response per cone type, coneIndex from 0 to coneCount - 1.
rgbToSpeciesResponse(m, rgb) ==
  [c \in 1..m.coneCount |->
     (Entry(m.rgbToSpecies, 1, c) * rgb[1]
      + Entry(m.rgbToSpecies, 2, c) * rgb[2]
      + Entry(m.rgbToSpecies, 3, c) * rgb[3]) \div 100]

calculateRodResponse(m, rgb) ==
  (Entry(<<m.rodWeights>>, 1, 1) * rgb[1]
   + Entry(<<m.rodWeights>>, 1, 2) * rgb[2]
   + Entry(<<m.rodWeights>>, 1, 3) * rgb[3]) \div 100

\* A faulty saturation: the blend weight is inverted, so saturation 0 keeps
\* the colour and saturation 1 removes it.
adjustSaturation_Inverted(rgb, saturation) ==
  LET luminance == MulFix(299000, rgb[1]) + MulFix(587000, rgb[2])
                   + MulFix(114000, rgb[3])
  IN  [k \in 1..3 |-> luminance + MulFix(rgb[k] - luminance, SCALE - saturation)]

adjustSaturation(rgb, saturation) ==
  LET luminance == MulFix(299000, rgb[1]) + MulFix(587000, rgb[2])
                   + MulFix(114000, rgb[3])
  IN  [k \in 1..3 |-> luminance + MulFix(rgb[k] - luminance, saturation)]

\* coneRgb[j] after the cone types 1..c have been added.
RECURSIVE ConeSum(_, _, _, _)
ConeSum(matrix, speciesCones, j, c) ==
  IF c = 0 THEN 0
  ELSE ConeSum(matrix, speciesCones, j, c - 1)
       + ((Entry(matrix, c, j) * speciesCones[c]) \div 100)

\* A faulty blend: the weights of the cone and the rod signal are swapped.
reconstructSpeciesVision_Swapped(m, speciesCones, rodResponse, lightCondition) ==
  LET coneRgb     == [j \in 1..3 |->
                        ConeSum(m.speciesToRgb, speciesCones, j, m.coneCount)]
      rodRgb      == <<rodResponse, rodResponse, rodResponse>>
      blendFactor == lightCondition.rodBlend
      mixedRgb    == [j \in 1..3 |->
                        MulFix(coneRgb[j], blendFactor)
                        + MulFix(rodRgb[j], SCALE - blendFactor)]
  IN  adjustSaturation(mixedRgb, lightCondition.saturation)

reconstructSpeciesVision(m, speciesCones, rodResponse, lightCondition) ==
  LET coneRgb     == [j \in 1..3 |->
                        ConeSum(m.speciesToRgb, speciesCones, j, m.coneCount)]
      rodRgb      == <<rodResponse, rodResponse, rodResponse>>
      blendFactor == lightCondition.rodBlend
      mixedRgb    == [j \in 1..3 |->
                        MulFix(coneRgb[j], SCALE - blendFactor)
                        + MulFix(rodRgb[j], blendFactor)]
  IN  adjustSaturation(mixedRgb, lightCondition.saturation)

\* Math.random(), the next value of the stream rnd; pos counts the draws made.
NextRandom(rnd, pos) == IF pos + 1 <= Len(rnd) THEN rnd[pos + 1] ELSE 0

\* A faulty glow: the blue glow is added to the red channel as well.
addBioluminescentEffects_RedGlow(rgb, depthFeet, rnd, pos) ==
  LET ambientFactor == Max2(10000, ExpFix(-((depthFeet - 100 * SCALE) \div 200)))
      bioLumBlue    == MulFix(20000, NextRandom(rnd, pos))
      bioLumGreen   == MulFix(15000, NextRandom(rnd, pos + 1))
  IN  [rgb  |-> << MulFix(rgb[1], ambientFactor) + bioLumBlue,
                   MulFix(rgb[2], ambientFactor) + bioLumGreen,
                   MulFix(rgb[3], ambientFactor) + bioLumBlue >>,
       used |-> 2]

\* The colour and the number of Math.random() calls made.
addBioluminescentEffects(rgb, depthFeet, rnd, pos) ==
  LET ambientFactor == Max2(10000, ExpFix(-((depthFeet - 100 * SCALE) \div 200)))
      bioLumBlue    == MulFix(20000, NextRandom(rnd, pos))
      bioLumGreen   == MulFix(15000, NextRandom(rnd, pos + 1))
  IN  [rgb  |-> << MulFix(rgb[1], ambientFactor),
                   MulFix(rgb[2], ambientFactor) + bioLumGreen,
                   MulFix(rgb[3], ambientFactor) + bioLumBlue >>,
       used |-> 2]

\* A faulty threshold: a depth of exactly 100 ft counts as deep sea.
addBackscatter_DeepFromHundred(rgb, depthFeet, rnd, pos) ==
  LET isDeepSea == depthFeet >= 100 * SCALE
  IN  IF isDeepSea THEN addBioluminescentEffects(rgb, depthFeet, rnd, pos)
      ELSE LET hazeFactor == MulFix(Min2(depthFeet \div 30, SCALE), 150000)
               hazeColor  == <<400000, 500000, 600000>>
           IN  [rgb  |-> [k \in 1..3 |->
                            MulFix(rgb[k], SCALE - hazeFactor)
                            + MulFix(hazeColor[k], hazeFactor)],
                used |-> 0]

addBackscatter(rgb, depthFeet, rnd, pos) ==
  LET isDeepSea == depthFeet > 100 * SCALE
  IN  IF isDeepSea THEN addBioluminescentEffects(rgb, depthFeet, rnd, pos)
      ELSE LET hazeFactor == MulFix(Min2(depthFeet \div 30, SCALE), 150000)
               hazeColor  == <<400000, 500000, 600000>>
           IN  [rgb  |-> [k \in 1..3 |->
                            MulFix(rgb[k], SCALE - hazeFactor)
                            + MulFix(hazeColor[k], hazeFactor)],
                used |-> 0]

\* Storing a number in a Uint8ClampedArray element.
StoreByte(v) == Max2(0, Min2(255, v))

\* The linear colour of a pixel before it is encoded, and the number of
\* Math.random() calls made: the loop body from the normalisation of the
\* three channels read to the optional backscatter, with this.matrices = m.
PixelColour(m, read, params, rnd, pos) ==
  LET rgb           == [k \in 1..3 |-> (Max2(read[k], 0) * SCALE) \div 255]
      linearRgb     == srgbToLinear(rgb)
      attenuatedRgb == applyUnderwaterAttenuation(linearRgb, params.depth,
                                                  params.waterProperties)
      speciesCones  == rgbToSpeciesResponse(m, attenuatedRgb)
      rodResponse   == calculateRodResponse(m, attenuatedRgb)
      speciesRgb    == reconstructSpeciesVision(m, speciesCones, rodResponse,
                                                params.lightCondition)
  IN  IF params.backscatter
      THEN addBackscatter(speciesRgb, params.depth, rnd, pos)
      ELSE [rgb |-> speciesRgb, used |-> 0]

\* Math.round(srgb * 255) stored in a Uint8ClampedArray element; NaN is
\* stored as 0.
EncodeChannel(isNaN, srgb) ==
  IF isNaN THEN 0 ELSE StoreByte(Round255(srgb))

\* A faulty alpha store: every output pixel is made opaque.
StoreAlpha_Opaque(read) == 255

\* outputData.data[i + 3] = imageData.data[i + 3]: the alpha read, stored as
\* it is (undefined is stored as 0).
StoreAlpha(read) == IF read[4] = Undefined THEN 0 ELSE StoreByte(read[4])

\* The four values stored for a pixel: the encoded colour final and the
\* alpha read (undefined is stored as 0).  A channel read past the end of the
\* data is undefined, which makes every colour channel NaN.
StorePixel(m, read, final) ==
  LET isNaN == (\E k \in 1..3 : read[k] = Undefined)
               \/ MatrixReadsUndefined(m)
      srgb  == linearToSrgb(final.rgb)
  IN  [bytes |-> << EncodeChannel(isNaN, srgb[1]),
                    EncodeChannel(isNaN, srgb[2]),
                    EncodeChannel(isNaN, srgb[3]),
                    StoreAlpha(read) >>,
       used  |-> final.used,
       oob   |-> Cardinality({k \in 1..4 : read[k] = Undefined})]

\* The loop body on the four values read at i..i+3.
PixelOf(m, read, params, rnd, pos) ==
  StorePixel(m, read, PixelColour(m, read, params, rnd, pos))

\* A faulty iteration: the four values are read at 0..3 whatever i is.
ProcessPixel_FirstIndex(m, data, params, rnd, i, pos) ==
  PixelOf(m, [k \in 1..4 |-> ReadByte(data, k - 1)], params, rnd, pos)

\* One iteration of the pixel loop of processImage, at index i (from 0): the
\* four values stored at i..i+3, the number of Math.random() calls made and
\* the number of reads past the end of data.
ProcessPixel(m, data, params, rnd, i, pos) ==
  PixelOf(m, [k \in 1..4 |-> ReadByte(data, i + k - 1)], params, rnd, pos)

\* What the loop has stored, drawn and read out of bounds after an iteration
\* px followed by the iterations rest.
JoinPixels(px, rest) ==
  [bytes |-> px.bytes \o rest.bytes,
   used  |-> px.used + rest.used,
   oob   |-> px.oob + rest.oob]

\* for (let i = 0; i < imageData.data.length; i += 4) { ... }, from index i
\* on; pos counts the random draws made so far.
RECURSIVE ProcessPixels(_, _, _, _, _, _)
RECURSIVE PixelsAfter(_, _, _, _, _, _, _)
PixelsAfter(px, m, data, params, rnd, i, pos) ==
  JoinPixels(px, ProcessPixels(m, data, params, rnd, i + 4, pos + px.used))

\* A faulty loop: it stops one pixel before the end of the data.
ProcessPixels_SkipLast(m, data, params, rnd, i, pos) ==
  IF ~(i + 4 < Len(data)) THEN [bytes |-> <<>>, used |-> 0, oob |-> 0]
  ELSE PixelsAfter(ProcessPixel(m, data, params, rnd, i, pos),
                   m, data, params, rnd, i, pos)

ProcessPixels(m, data, params, rnd, i, pos) ==
  IF ~(i < Len(data)) THEN [bytes |-> <<>>, used |-> 0, oob |-> 0]
  ELSE PixelsAfter(ProcessPixel(m, data, params, rnd, i, pos),
                   m, data, params, rnd, i, pos)

\* A faulty update: the matrices are chosen on the first call only and kept
\* afterwards.
UpdateMatrices_Cached(self, t, params) ==
  IF self.matrices = t.bass
  THEN [self EXCEPT !.matrices = getSpeciesVisionMatrices(t, params.speciesId)]
  ELSE self

\* this.matrices = this.getSpeciesVisionMatrices(params.speciesId)
UpdateMatrices(self, t, params) ==
  [self EXCEPT !.matrices = getSpeciesVisionMatrices(t, params.speciesId)]

\* this.canvas.width = imageData.width; this.canvas.height = imageData.height
SizeCanvas(self, imageData) ==
  [self EXCEPT !.canvasWidth = imageData.width,
               !.canvasHeight = imageData.height]

\* A promise rejected with an error.
Rejected(message) ==
  [status |-> "rejected", error |-> message, width |-> 0, height |-> 0,
   data |-> <<>>]

\* new ImageData(width, height) filled by the loop: a write past the end of
\* its data is dropped, an element never written stays 0.
Resolved(width, height, bytes) ==
  [status |-> "resolved", error |-> "", width |-> width, height |-> height,
   data |-> [k \in 1..(width * height * 4) |->
               IF k <= Len(bytes) THEN bytes[k] ELSE 0]]

\* return outputData, after the loop.
Returned(self, imageData, loop) ==
  [self |-> self,
   result |-> Resolved(imageData.width, imageData.height, loop.bytes),
   used |-> loop.used, oobReads |-> loop.oob]

\* A throw out of processImage.
Thrown(self, message) ==
  [self |-> self, result |-> Rejected(message), used |-> 0, oobReads |-> 0]

\* processImage from the canvas sizing on: the pixel loop and the return.
\* The first iteration throws when the matrices lack a row the loops index.
RunPixelLoop(self, imageData, params, rnd) ==
  IF Len(imageData.data) > 0 /\ MatrixReadThrows(self.matrices)
  THEN Thrown(self, "TypeError")
  ELSE Returned(self, imageData,
                ProcessPixels(self.matrices, imageData.data, params, rnd, 0, 0))

\* A faulty guard: a negative depth is refused.
AfterUpdate_RefusesNegativeDepth(self, imageData, params, rnd) ==
  IF ~self.canvas THEN Thrown(self, "Canvas not available")
  ELSE IF params.depth < 0 THEN Thrown(self, "RangeError")
  ELSE RunPixelLoop(SizeCanvas(self, imageData), imageData, params, rnd)

\* processImage after this.matrices has been set: the canvas check, then the
\* rest.
AfterUpdate(self, imageData, params, rnd) ==
  IF ~self.canvas THEN Thrown(self, "Canvas not available")
  ELSE RunPixelLoop(SizeCanvas(self, imageData), imageData, params, rnd)

\* processImage on the processor self (its fields), with the imported matrix
\* sets t and the random stream rnd: the processor afterwards, the promise's
\* outcome, the number of random draws and of reads past the input's end.
processImage(self, t, imageData, params, rnd) ==
  AfterUpdate(UpdateMatrices(self, t, params), imageData, params, rnd)

\* The fields of a processor the constructor has just built.
Constructed(t, hasCanvas) ==
  [matrices |-> t.bass, canvas |-> hasCanvas,
   canvasWidth  |-> IF hasCanvas THEN 300 ELSE 0,
   canvasHeight |-> IF hasCanvas THEN 150 ELSE 0]

\* ------------------------------------------------------------------------
\* The WebGL processor's fragment shader (src/src/lib/constants.ts)
\* ------------------------------------------------------------------------

\* GLSL mix(a, b, t) and step(edge, x) on one component.
shader_mix(a, b, t) == MulFix(a, SCALE - t) + MulFix(b, t)

shader_step(edge, x) == IF x < edge THEN 0 ELSE SCALE

shader_srgbToLinear(srgb) ==
  [k \in 1..3 |->
     IF shader_step(40450, srgb[k]) = 0 THEN (srgb[k] * 100) \div 1292
     ELSE PowFix(((srgb[k] + 55000) * 1000) \div 1055, 2400000)]

shader_linearToSrgb(linear) ==
  [k \in 1..3 |->
     Max2(0, Min2(SCALE,
       IF shader_step(3130, linear[k]) = 0 THEN MulFix(linear[k], 12920000)
       ELSE MulFix(1055000, PowFix(linear[k], 416667)) - 55000))]

shader_calculateSalinityAdjustedK(baseK, salinity) ==
  LET salinityFactor == salinity \div 10
  IN  << MulFix(baseK[1], SCALE + MulFix(salinityFactor, 8000)),
         MulFix(baseK[2], SCALE + MulFix(salinityFactor, 5000)),
         MulFix(baseK[3], SCALE + MulFix(salinityFactor, 3000)) >>

shader_applyUnderwaterAttenuation(rgb, depth, k, salinity) ==
  LET doublePassDepth == MulFix(2 * depth, 304800)
      adjustedK       == shader_calculateSalinityAdjustedK(k, salinity)
  IN  [j \in 1..3 |->
         MulFix(rgb[j], ExpFix(-MulFix(adjustedK[j], doublePassDepth)))]

\* The two cone responses, with the bass coefficients written in the shader.
shader_rgbToFishResponse(rgb) ==
  << (85 * rgb[1] + 65 * rgb[2] + 15 * rgb[3]) \div 100,
     (25 * rgb[1] + 92 * rgb[2] + 45 * rgb[3]) \div 100 >>

shader_calculateRodResponse(rgb, u_rodWeights) ==
  (u_rodWeights[1] * rgb[1] + u_rodWeights[2] * rgb[2]
   + u_rodWeights[3] * rgb[3]) \div 100

shader_reconstructFishVision(fishCones, rodResponse, u_rodBlend) ==
  LET coneRgb == << (75 * fishCones[1] + 25 * fishCones[2]) \div 100,
                    (15 * fishCones[1] + 85 * fishCones[2]) \div 100,
                    ( 5 * fishCones[1] + 45 * fishCones[2]) \div 100 >>
  IN  [j \in 1..3 |-> shader_mix(coneRgb[j], rodResponse, u_rodBlend)]

shader_adjustSaturation(rgb, saturation) ==
  LET luminance == MulFix(299000, rgb[1]) + MulFix(587000, rgb[2])
                   + MulFix(114000, rgb[3])
  IN  [j \in 1..3 |-> shader_mix(luminance, rgb[j], saturation)]

shader_addBackscatter(rgb, depth, intensity) ==
  LET hazeFactor == MulFix(MulFix(Min2(depth \div 30, SCALE), intensity), 150000)
      hazeColor  == <<400000, 500000, 600000>>
  IN  [j \in 1..3 |-> shader_mix(rgb[j], hazeColor[j], hazeFactor)]

\* setUniforms(params): the uniform values the shader runs with.
setUniforms(params) ==
  [u_depth       |-> params.depth,
   u_kValues     |-> << params.waterProperties.clarity.kR,
                        params.waterProperties.clarity.kG,
                        params.waterProperties.clarity.kB >>,
   u_salinity    |-> params.waterProperties.salinity,
   u_rodBlend    |-> params.lightCondition.rodBlend,
   u_saturation  |-> params.lightCondition.saturation,
   u_backscatter |-> IF params.backscatter THEN SCALE ELSE 0,
   u_rodWeights  |-> <<15, 75, 35>>]

\* main() on the texel of four bytes: the four bytes of the fragment in the
\* RGBA8 framebuffer.
shader_main(texel, u) ==
  LET rgb           == [k \in 1..3 |-> (texel[k] * SCALE) \div 255]
      linearRgb     == shader_srgbToLinear(rgb)
      attenuatedRgb == shader_applyUnderwaterAttenuation(linearRgb, u.u_depth,
                                                         u.u_kValues, u.u_salinity)
      fishCones     == shader_rgbToFishResponse(attenuatedRgb)
      rodResponse   == shader_calculateRodResponse(attenuatedRgb, u.u_rodWeights)
      fishRgb       == shader_reconstructFishVision(fishCones, rodResponse,
                                                    u.u_rodBlend)
      saturated     == shader_adjustSaturation(fishRgb, u.u_saturation)
      hazed         == shader_addBackscatter(saturated, u.u_depth, u.u_backscatter)
      finalRgb      == shader_linearToSrgb(hazed)
  IN  << StoreByte(Round255(finalRgb[1])), StoreByte(Round255(finalRgb[2])),
         StoreByte(Round255(finalRgb[3])), texel[4] >>

\* WebGLAquaticVisionProcessor.processImage on a well-formed image, once the
\* shader program is linked: the pixels read back, one fragment per texel.
WebGLProcessImage(imageData, params) ==
  [status |-> "resolved", error |-> "",
   width |-> imageData.width, height |-> imageData.height,
   data |-> [k \in 1..(imageData.width * imageData.height * 4) |->
               shader_main([c \in 1..4 |->
                              imageData.data[4 * ((k - 1) \div 4) + c]],
                           setUniforms(params))[((k - 1) % 4) + 1]]]

\* ------------------------------------------------------------------------
\* Inputs of the model
\* ------------------------------------------------------------------------

\* The longest image, in pixels.
MaxPixels == 2

\* RGBA pixels: white, black, a half-transparent orange.
Palette == << <<255, 255, 255, 255>>, <<0, 0, 0, 255>>, <<200, 120, 40, 128>> >>

\* n consecutive palette pixels from position s on, cyclically.
RECURSIVE PixelRun(_, _)
PixelRun(s, n) ==
  IF n = 0 THEN <<>>
  ELSE Palette[((s - 1) % Len(Palette)) + 1] \o PixelRun(s + 1, n - 1)

\* Well-formed images: n x 1, data of n * 4 bytes.
WellFormedImages ==
  {[width |-> n, height |-> 1, data |-> PixelRun(s, n)] :
     s \in 1..Len(Palette), n \in 1..MaxPixels}

\* Malformed buffers: a length that is no multiple of 4, and a length other
\* than width x height x 4.
MalformedImages ==
  { [width |-> 1, height |-> 1, data |-> <<200, 120, 40, 128, 255, 255>>],
    [width |-> 2, height |-> 1, data |-> <<200, 120, 40, 128>>],
    [width |-> 1, height |-> 1, data |-> PixelRun(1, 2)] }

Images == WellFormedImages \cup MalformedImages

WellFormed(imageData) ==
  /\ Len(imageData.data) % 4 = 0
  /\ imageData.width * imageData.height * 4 = Len(imageData.data)

\* One species id of each vision type, and an id that is not in the table.
UnknownSpeciesId == "no-such-fish"

SpeciesIds == {"largemouth-bass", "pacific-hagfish", "goldfish",
               "rainbow-trout", "reef-damselfish", UnknownSpeciesId}

\* Depths in feet: the surface, the shallow regime, the deep-sea regime.
Depths == {0, 20 * SCALE, 150 * SCALE}

WaterSet == {[clarity |-> WATER_CLARITY_PRESETS[1], salinity |-> 0],
             [clarity |-> WATER_CLARITY_PRESETS[2], salinity |-> 35 * SCALE]}

\* Bright sun, and an overcast condition desaturated fully.
LightSet == {LIGHT_CONDITIONS[1],
             [LIGHT_CONDITIONS[2] EXCEPT !.saturation = 0]}

\* Every combination of the above, and the default parameters with each
\* species id of the table.
ParamSet ==
  [speciesId : SpeciesIds, depth : Depths, waterProperties : WaterSet,
   lightCondition : LightSet, backscatter : BOOLEAN]
  \cup {[DEFAULT_PARAMS EXCEPT !.speciesId = FISH_SPECIES[i].id] :
          i \in 1..Len(FISH_SPECIES)}

\* The values Math.random() may return.
RandomValues == {0, 900000}

\* The random streams of n draws the model tries: every choice of the first
\* two draws, repeated with period 2.
RandomStreams(n) ==
  {s \in [1..n -> RandomValues] : \A i \in 3..n : s[i] = s[i - 2]}

\* ------------------------------------------------------------------------
\* The processor as a state machine
\* ------------------------------------------------------------------------

VARIABLES
  tables,        \* the five matrix sets the module imports
  matrices,      \* this.matrices
  canvas,        \* this.canvas and this.ctx are both non-null
  canvasWidth,   \* this.canvas.width
  canvasHeight,  \* this.canvas.height
  pc,            \* "idle", or "settled": a call's promise is settled
  args,          \* the arguments of the settled call
  result,        \* the outcome of the settled call
  draws,         \* the Math.random() values the settled call drew, in order
  oobReads,      \* how many reads past the end of the input it made
  priorType,     \* this.matrices.visionType when the settled call began
  transfer,      \* the last value sent through both transfer functions
  home,          \* Home's state as of its last render
  queued,        \* Home's state with the updates set since that render
  timers,        \* the setTimeout callbacks pending, with what they captured
  effect,        \* the timeoutId the auto-trigger effect's cleanup clears
  run,           \* the handler that awaits processImage, or the last one
  uploads,       \* the image loads under way, with the handler they captured
  splitPosition,       \* ImageViewer's splitPosition
  viewMode,            \* ImageViewer's viewMode
  animationFrameRef,   \* animationFrameRef.current
  pendingPositionRef,  \* pendingPositionRef.current
  frames,              \* the requestAnimationFrame callbacks pending
  mounted,             \* ImageViewer is mounted
  hasImages            \* ImageViewer's props hold both images

\* The processor and its call.
processorVars == <<tables, matrices, canvas, canvasWidth, canvasHeight, pc,
                   args, result, draws, oobReads, priorType>>

\* The page.
pageVars == <<home, queued, timers, effect, run, uploads>>

\* The image viewer.
viewerVars == <<splitPosition, viewMode, animationFrameRef,
                pendingPositionRef, frames, mounted, hasImages>>

\* The variables outside the processor and its call.
otherVars == <<transfer, pageVars, viewerVars>>

vars == <<processorVars, otherVars>>

\* The processor's fields.
Self == [matrices |-> matrices, canvas |-> canvas,
         canvasWidth |-> canvasWidth, canvasHeight |-> canvasHeight]

NoArgs == [imageData |-> [width |-> 0, height |-> 0, data |-> <<>>],
           params |-> DEFAULT_PARAMS]

NoResult == [status |-> "none", error |-> "", width |-> 0, height |-> 0,
             data |-> <<>>]

NoTransfer == [from |-> "none", x |-> 0, mid |-> 0, back |-> 0]

\* Home's useState initial values: params, currentImage, result,
\* isProcessing, processor.  A null image or result is the empty sequence.
NoHome == [params |-> DEFAULT_PARAMS, currentImage |-> <<>>, result |-> <<>>,
           isProcessing |-> FALSE, processor |-> FALSE]

\* No handler has awaited processImage yet.
NoRun == [phase |-> "none", kind |-> "none", imageData |-> <<>>,
          params |-> DEFAULT_PARAMS, outcome |-> NoResult,
          timerBefore |-> FALSE]

\* new LureVisionProcessor(), in a browser (canvas) or outside one.
InitWith(t) ==
  /\ tables = t
  /\ \E hasCanvas \in BOOLEAN :
       LET c == Constructed(t, hasCanvas)
       IN  /\ matrices = c.matrices
           /\ canvas = c.canvas
           /\ canvasWidth = c.canvasWidth
           /\ canvasHeight = c.canvasHeight
  /\ pc = "idle"
  /\ args = NoArgs
  /\ result = NoResult
  /\ draws = <<>>
  /\ oobReads = 0
  /\ priorType = t.bass.visionType
  /\ transfer = NoTransfer
  /\ home = NoHome
  /\ queued = NoHome
  /\ timers = {}
  /\ effect = 0
  /\ run = NoRun
  /\ uploads = {}
  /\ splitPosition = 50
  /\ viewMode = "split"
  /\ animationFrameRef = 0
  /\ pendingPositionRef = Undefined
  /\ frames = {}
  /\ mounted = TRUE
  /\ hasImages = FALSE

Init == InitWith(ShippedTables)

\* A call processor.processImage(imageData, params), run to its return or
\* throw.  The random stream holds as many values as the call draws.
ProcessImage(imageData, params) ==
  /\ pc = "idle"
  /\ \E probe \in {processImage(Self, tables, imageData, params, <<>>)} :
     \E rnd \in RandomStreams(probe.used) :
     \E r \in {IF probe.used = 0 THEN probe
               ELSE processImage(Self, tables, imageData, params, rnd)} :
       /\ matrices' = r.self.matrices
       /\ canvasWidth' = r.self.canvasWidth
       /\ canvasHeight' = r.self.canvasHeight
       /\ result' = r.result
       /\ draws' = rnd
       /\ oobReads' = r.oobReads
  /\ args' = [imageData |-> imageData, params |-> params]
  /\ priorType' = matrices.visionType
  /\ pc' = "settled"
  /\ UNCHANGED <<tables, canvas>>
  /\ UNCHANGED otherVars

\* The caller's await resumes with the outcome; the processor is free again.
Deliver ==
  /\ pc = "settled"
  /\ pc' = "idle"
  /\ args' = NoArgs
  /\ result' = NoResult
  /\ draws' = <<>>
  /\ oobReads' = 0
  /\ priorType' = matrices.visionType
  /\ UNCHANGED <<tables, matrices, canvas, canvasWidth, canvasHeight>>
  /\ UNCHANGED otherVars

Next ==
  \/ \E imageData \in Images : \E params \in ParamSet :
       ProcessImage(imageData, params)
  \/ Deliver

Spec == Init /\ [][Next]_vars

\* Matrix sets authored with a shape that disagrees with coneCount: the
\* tetrachromatic matrices under a coneCount of 3 (the loops then leave the
\* fourth cone type out), and a trichromatic set whose speciesToRgb lacks its
\* third row (the inverse loop then throws a TypeError at the first pixel).
MisauthoredTables ==
  { [ShippedTables EXCEPT !.tetra.coneCount = 3],
    [ShippedTables EXCEPT !.tri.speciesToRgb = SubSeq(@, 1, 2)] }

\* The program built with a mis-authored matrix set.
InitConfig == \E t \in MisauthoredTables : InitWith(t)

SpecConfig == InitConfig /\ [][Next]_vars

\* ------------------------------------------------------------------------
\* Single pixels under a wider range of parameters
\* ------------------------------------------------------------------------

\* One-pixel images: white, black, the half-transparent orange, pure red,
\* pure blue.
PixelImages ==
  {[width |-> 1, height |-> 1, data |-> px] :
     px \in {<<255, 255, 255, 255>>, <<0, 0, 0, 255>>, <<200, 120, 40, 128>>,
             <<255, 0, 0, 255>>, <<0, 0, 255, 255>>}}

\* Depths in feet from above the surface to the deep-sea regime, with the
\* threshold of 100 ft itself and a depth beyond the 30 ft haze ceiling.
RangeDepths == {-1 * SCALE, 0, 20 * SCALE, 60 * SCALE, 100 * SCALE, 150 * SCALE}

\* Clear and murky water, and salinities outside 0..40 ppt.
RangeWaterSet ==
  {[clarity |-> WATER_CLARITY_PRESETS[1], salinity |-> 0],
   [clarity |-> WATER_CLARITY_PRESETS[2], salinity |-> 35 * SCALE],
   [clarity |-> WATER_CLARITY_PRESETS[1], salinity |-> -10 * SCALE],
   [clarity |-> WATER_CLARITY_PRESETS[1], salinity |-> 50 * SCALE]}

\* Bright sun, low light, rod vision alone (rodBlend = 1), and rodBlend and
\* saturation outside [0, 1] on either side.
RangeLightSet ==
  {LIGHT_CONDITIONS[1],
   LIGHT_CONDITIONS[3],
   [LIGHT_CONDITIONS[3] EXCEPT !.rodBlend = SCALE],
   [LIGHT_CONDITIONS[1] EXCEPT !.rodBlend = -(SCALE \div 2), !.saturation = 2 * SCALE],
   [LIGHT_CONDITIONS[1] EXCEPT !.rodBlend = 3 * (SCALE \div 2),
                               !.saturation = -(SCALE \div 2)]}

RangeParamSet ==
  [speciesId : {"largemouth-bass", "goldfish", "reef-damselfish"},
   depth : RangeDepths, waterProperties : RangeWaterSet,
   lightCondition : RangeLightSet, backscatter : BOOLEAN]

NextRange ==
  \/ \E imageData \in PixelImages : \E params \in RangeParamSet :
       ProcessImage(imageData, params)
  \/ Deliver

SpecRange == Init /\ [][NextRange]_vars

\* ------------------------------------------------------------------------
\* Properties of processImage
\* ------------------------------------------------------------------------

\* A call has returned an output image.
ResolvedCall == pc = "settled" /\ result.status = "resolved"

\* The call's configuration draws random jitter: backscatter at a depth
\* beyond 100 ft.
JitterConfigured(params) == params.backscatter /\ params.depth > 100 * SCALE

\* What a processor that has just been constructed returns for a call.
FreshResult(imageData, params, rnd) ==
  processImage(Constructed(tables, canvas), tables, imageData, params,
               rnd).result

\* The pixels of an RGBA buffer, from 0, and the bytes of pixel p.
PixelsIn(data) == 0..((Len(data) \div 4) - 1)

PixelAt(data, p) == [k \in 1..4 |-> data[4 * p + k]]

\* C1: for every input image and every parameter set, the alpha byte of
\* each output pixel is the alpha byte of the input pixel at the same
\* index, whatever was done to the colour channels.
C1_AlphaPassThrough ==
  ResolvedCall =>
    \A k \in 1..Len(result.data) :
      (k % 4 = 0 /\ k <= Len(args.imageData.data))
        => result.data[k] = args.imageData.data[k]

\* A half-transparent pixel whose colour was changed and whose alpha was
\* kept, in a call with backscatter.
C1_Witness ==
  /\ ResolvedCall
  /\ WellFormed(args.imageData)
  /\ args.params.backscatter
  /\ \E p \in PixelsIn(result.data) :
       /\ PixelAt(args.imageData.data, p)[4] = 128
       /\ PixelAt(result.data, p)[4] = 128
       /\ PixelAt(result.data, p)[1] # PixelAt(args.imageData.data, p)[1]

\* C2: a call's output is a function of the image and the parameters only:
\* when no jitter is drawn, a processor that has served earlier calls
\* returns what a newly constructed processor returns.
C2_NoHiddenState ==
  (pc = "settled" /\ ~JitterConfigured(args.params))
    => result = FreshResult(args.imageData, args.params, <<>>)

\* A bass call served by a processor whose earlier call left it with the
\* pentachromatic matrices and another canvas size.
C2_Witness ==
  /\ ResolvedCall
  /\ ~JitterConfigured(args.params)
  /\ priorType = "pentachromatic"
  /\ args.params.speciesId = "largemouth-bass"
  /\ matrices = tables.bass
  /\ \E k \in 1..Len(result.data) : k % 4 # 0 /\ result.data[k] > 0

\* C3: a call with a species id that is not in the table sets and uses the
\* bass matrices, returns what the same call with 'largemouth-bass' returns,
\* and raises no error of its own (outside a browser every call is rejected
\* for want of a canvas, whatever the id).
C3_UnknownSpeciesIsBass ==
  (pc = "settled" /\ getSpeciesById(args.params.speciesId) = <<>>) =>
    /\ matrices = tables.bass
    /\ result = FreshResult(args.imageData,
                            [args.params EXCEPT !.speciesId = "largemouth-bass"],
                            draws)
    /\ canvas => result.status = "resolved"

\* A call with the unknown id, after a call of another vision type, that
\* returned a visible image.
C3_Witness ==
  /\ ResolvedCall
  /\ args.params.speciesId = UnknownSpeciesId
  /\ priorType = "monochromatic"
  /\ \E k \in 1..Len(result.data) : k % 4 # 0 /\ result.data[k] > 0

\* The three colour bytes of every output pixel are equal.
AllGray(data) ==
  \A p \in PixelsIn(data) :
    PixelAt(data, p)[1] = PixelAt(data, p)[2]
    /\ PixelAt(data, p)[2] = PixelAt(data, p)[3]

\* C4 as stated: with saturation = 0 every output pixel has R = G = B, for
\* any species, clarity, salinity, rodBlend and backscatter setting.
C4_GrayAtZeroSaturation ==
  (ResolvedCall /\ args.params.lightCondition.saturation = 0)
    => AllGray(result.data)

\* C4: with saturation = 0 every output pixel has R = G = B when nothing is
\* added after the desaturation: backscatter is disabled, or the depth is 0
\* so that the haze factor is 0.
C4_GrayWithoutHaze ==
  (/\ ResolvedCall
   /\ args.params.lightCondition.saturation = 0
   /\ (~args.params.backscatter \/ args.params.depth = 0))
    => AllGray(result.data)

\* A coloured pixel that came out gray and not black.
C4_Witness ==
  /\ ResolvedCall
  /\ args.params.lightCondition.saturation = 0
  /\ ~args.params.backscatter
  /\ \E p \in PixelsIn(result.data) :
       /\ 4 * p + 4 <= Len(args.imageData.data)
       /\ PixelAt(args.imageData.data, p)[1] # PixelAt(args.imageData.data, p)[3]
       /\ PixelAt(result.data, p)[1] > 0
  /\ AllGray(result.data)

\* C5 as stated: a buffer whose length is no multiple of 4, or differs from
\* width x height x 4, is rejected: the call fails, reads nothing past the
\* end of the data and returns no output.
C5_MalformedRejected ==
  (pc = "settled" /\ ~WellFormed(args.imageData))
    => (result.status = "rejected" /\ oobReads = 0)

\* The shape a matrix set must have for its coneCount.
ShapeOK(m) ==
  /\ m.coneCount \in 1..5
  /\ Len(m.rgbToSpecies) = 3
  /\ \A r \in 1..Len(m.rgbToSpecies) : Len(m.rgbToSpecies[r]) = m.coneCount
  /\ Len(m.speciesToRgb) = m.coneCount
  /\ \A c \in 1..Len(m.speciesToRgb) : Len(m.speciesToRgb[c]) = 3
  /\ Len(m.rodWeights) = 3

\* C6 as stated: a matrix set whose shape disagrees with its coneCount stops
\* the program at initialization, so no call runs the pixel loop to its end
\* and returns an image computed with such matrices.
C6_MismatchNeverProcessed == ResolvedCall => ShapeOK(matrices)

\* C7: each of the five shipped matrix sets has the shape of its coneCount
\* (coneCount in 1..5, rgbToSpecies 3 x coneCount, speciesToRgb coneCount x 3,
\* three rod weights), so the matrices a call uses are never indexed outside
\* a row or a column.
C7_ShippedShapes ==
  /\ \A n \in DOMAIN tables : ShapeOK(tables[n])
  /\ ShapeOK(matrices)
  /\ ~MatrixReadThrows(matrices)
  /\ ~MatrixReadsUndefined(matrices)
  /\ pc = "settled" => result.error # "TypeError"

\* A call that ran the loops over all five cone types of the pentachromatic
\* set and returned a visible image.
C7_Witness ==
  /\ ResolvedCall
  /\ matrices = tables.penta
  /\ matrices.coneCount = 5
  /\ \E k \in 1..Len(result.data) : k % 4 # 0 /\ result.data[k] > 0

\* The number of cone types of a vision type, and the vision types the
\* lookup has a case for.
ConeCardinality(visionType) ==
  CASE visionType = "monochromatic"  -> 1
    [] visionType = "dichromatic"    -> 2
    [] visionType = "trichromatic"   -> 3
    [] visionType = "tetrachromatic" -> 4
    [] visionType = "pentachromatic" -> 5
    [] OTHER                         -> 0

\* C8: a call with a species id of the table leaves the processor with the
\* matrix set of the species' vision type, whose coneCount is the number of
\* cone types of that type; it is the one set of that type, shared by all
\* species of the type, and the species' type is one the lookup has a case
\* for, so the fallback is not taken.
C8_MatricesMatchSpecies ==
  (pc = "settled" /\ getSpeciesById(args.params.speciesId) # <<>>) =>
    LET species == getSpeciesById(args.params.speciesId)[1]
    IN  /\ ConeCardinality(species.visionType) \in 1..5
        /\ matrices.visionType = species.visionType
        /\ matrices.coneCount = ConeCardinality(species.visionType)
        /\ \E n \in DOMAIN tables : tables[n] = matrices
        /\ \A n \in DOMAIN tables :
             tables[n].visionType = species.visionType => tables[n] = matrices

\* A call for a tetrachromatic species of the table that is not the one the
\* parameter combinations use.
C8_Witness ==
  /\ ResolvedCall
  /\ args.params.speciesId = "common-carp"
  /\ matrices = tables.tetra
  /\ matrices.coneCount = 4

\* The random stream that differs from rnd at every draw.
OtherStream(rnd) == [i \in 1..Len(rnd) |-> 900000 - rnd[i]]

\* C9: a call draws random values only with backscatter at a depth beyond
\* 100 ft; in every other configuration the output does not depend on what
\* Math.random() would return; in the deep-sea configuration a call with
\* other random values returns the same red and alpha bytes.
C9_JitterOnlyDeepGreenBlue ==
  pc = "settled" =>
    /\ draws # <<>> => JitterConfigured(args.params)
    /\ ~JitterConfigured(args.params) =>
         result = FreshResult(args.imageData, args.params,
                              [i \in 1..Len(args.imageData.data) |-> 900000])
    /\ LET other == FreshResult(args.imageData, args.params,
                                OtherStream(draws))
       IN  /\ other.status = result.status
           /\ Len(other.data) = Len(result.data)
           /\ \A p \in PixelsIn(result.data) :
                /\ PixelAt(other.data, p)[1] = PixelAt(result.data, p)[1]
                /\ PixelAt(other.data, p)[4] = PixelAt(result.data, p)[4]

\* A deep-sea call whose green and blue bytes changed with the random values
\* drawn.
C9_Witness ==
  /\ ResolvedCall
  /\ JitterConfigured(args.params)
  /\ \E i \in 1..Len(draws) : draws[i] > 0
  /\ LET other == FreshResult(args.imageData, args.params, OtherStream(draws))
     IN  \E p \in PixelsIn(result.data) :
           /\ PixelAt(other.data, p)[2] # PixelAt(result.data, p)[2]
           /\ PixelAt(other.data, p)[3] # PixelAt(result.data, p)[3]
           /\ PixelAt(other.data, p)[1] = PixelAt(result.data, p)[1]

\* The image that holds pixel p of imageData alone.
SinglePixel(imageData, p) ==
  [width |-> 1, height |-> 1,
   data |-> [k \in 1..4 |-> imageData.data[4 * p + k]]]

\* C10: when no jitter is drawn, each output pixel is what the call returns
\* for the image that holds that input pixel alone: it depends on no other
\* pixel, on no position and on no order of processing.
C10_PixelIndependence ==
  (ResolvedCall /\ ~JitterConfigured(args.params) /\ WellFormed(args.imageData))
    => \A p \in PixelsIn(args.imageData.data) :
         PixelAt(result.data, p)
           = FreshResult(SinglePixel(args.imageData, p), args.params, <<>>).data

\* An image of two different pixels whose output pixels differ.
C10_Witness ==
  /\ ResolvedCall
  /\ ~JitterConfigured(args.params)
  /\ WellFormed(args.imageData)
  /\ Len(args.imageData.data) = 8
  /\ PixelAt(args.imageData.data, 0) # PixelAt(args.imageData.data, 1)
  /\ PixelAt(result.data, 0) # PixelAt(result.data, 1)

\* C11: for a well-formed image and every parameter combination the returned
\* buffer has the width, height and data length of the input, and the loop
\* has written one pixel of four values for every input pixel (an output
\* pixel never written would keep alpha 0; every input pixel of the model
\* has an alpha above 0).
C11_SameSizeOnePixelEach ==
  (ResolvedCall /\ WellFormed(args.imageData)) =>
    /\ result.width = args.imageData.width
    /\ result.height = args.imageData.height
    /\ Len(result.data) = Len(args.imageData.data)
    /\ Len(result.data) = 4 * result.width * result.height
    /\ PixelsIn(result.data) = PixelsIn(args.imageData.data)
    /\ \A p \in PixelsIn(args.imageData.data) :
         PixelAt(args.imageData.data, p)[4] > 0
           => PixelAt(result.data, p)[4] > 0

\* A two-pixel image returned with both of its pixels written.
C11_Witness ==
  /\ ResolvedCall
  /\ WellFormed(args.imageData)
  /\ args.imageData.width = 2
  /\ Len(result.data) = 8
  /\ PixelAt(result.data, 0)[4] > 0
  /\ PixelAt(result.data, 1)[4] > 0

\* The attenuated linear colour of input pixel p of the settled call.
AttenuatedAt(p) ==
  applyUnderwaterAttenuation(
    srgbToLinear([k \in 1..3 |->
                    (PixelAt(args.imageData.data, p)[k] * SCALE) \div 255]),
    args.params.depth, args.params.waterProperties)

\* The byte a linear channel value is encoded to.
EncodedByte(linear) ==
  StoreByte(Round255(linearToSrgb(<<linear, linear, linear>>)[1]))

\* The matrix sets with every entry of rgbToSpecies and speciesToRgb changed
\* and the rod weights kept.
ConesChanged(m) ==
  [m EXCEPT
     !.rgbToSpecies = [r \in 1..Len(@) |-> [c \in 1..Len(@[r]) |-> 100 - @[r][c]]],
     !.speciesToRgb = [c \in 1..Len(@) |-> [j \in 1..Len(@[c]) |-> 100 - @[c][j]]]]

\* C12: with rodBlend = 1 and backscatter disabled each output pixel is the
\* achromatic triple of the rod response (the dot product of the attenuated
\* linear colour with rodWeights), up to one step of the byte encoding, and
\* the outcome is the same when every entry of rgbToSpecies and speciesToRgb
\* is changed.
C12_RodOnlyAtFullBlend ==
  (/\ ResolvedCall
   /\ args.params.lightCondition.rodBlend = SCALE
   /\ ~args.params.backscatter) =>
    /\ AllGray(result.data)
    /\ \A p \in PixelsIn(result.data) :
         LET rod == calculateRodResponse(matrices, AttenuatedAt(p))
         IN  Abs(PixelAt(result.data, p)[1] - EncodedByte(rod)) <= 1
    /\ result = processImage(Constructed(tables, canvas),
                             [n \in DOMAIN tables |-> ConesChanged(tables[n])],
                             args.imageData, args.params, <<>>).result

\* The orange pixel seen by a trichromatic species through its rods alone:
\* gray and not black.
C12_Witness ==
  /\ ResolvedCall
  /\ args.params.lightCondition.rodBlend = SCALE
  /\ ~args.params.backscatter
  /\ args.params.speciesId = "goldfish"
  /\ args.imageData.data = <<200, 120, 40, 128>>
  /\ result.data[1] > 0
  /\ AllGray(result.data)

\* The two buffers have the same size and every byte of one is within two
\* steps of the byte of the other.
BytesAgree(one, other) ==
  /\ Len(one) = Len(other)
  /\ \A k \in 1..Len(one) : Abs(one[k] - other[k]) <= 2

\* C13 as stated: for the same image and parameters the WebGL processor
\* returns what LureVisionProcessor returns, up to arithmetic tolerance.
C13_WebGLAgrees ==
  (ResolvedCall /\ WellFormed(args.imageData)) =>
    BytesAgree(result.data, WebGLProcessImage(args.imageData, args.params).data)

\* The two processors do agree for the bass matrices outside the deep-sea
\* regime.
WebGLAgreesForShallowBass ==
  (/\ ResolvedCall /\ WellFormed(args.imageData)
   /\ matrices = tables.bass
   /\ ~JitterConfigured(args.params)) =>
    BytesAgree(result.data, WebGLProcessImage(args.imageData, args.params).data)

\* C14: with backscatter disabled a black input pixel (0,0,0,a) comes out as
\* (0,0,0,a), for every species, depth, clarity, salinity and light condition.
C14_BlackStaysBlack ==
  (ResolvedCall /\ ~args.params.backscatter) =>
    \A p \in PixelsIn(result.data) :
      (/\ 4 * p + 4 <= Len(args.imageData.data)
       /\ \A k \in 1..3 : PixelAt(args.imageData.data, p)[k] = 0)
        => PixelAt(result.data, p)
             = <<0, 0, 0, PixelAt(args.imageData.data, p)[4]>>

\* The 2x1 white/black image at depth 0 in clear fresh water under bright
\* light for a dichromatic species: the black pixel comes out (0,0,0,255)
\* next to a white pixel that does not.
C14_Witness ==
  /\ ResolvedCall
  /\ args.imageData = [width |-> 2, height |-> 1,
                       data |-> <<255, 255, 255, 255, 0, 0, 0, 255>>]
  /\ args.params = [speciesId |-> "largemouth-bass", depth |-> 0,
                    waterProperties |-> [clarity |-> WATER_CLARITY_PRESETS[1],
                                         salinity |-> 0],
                    lightCondition |-> LIGHT_CONDITIONS[1],
                    backscatter |-> FALSE]
  /\ PixelAt(result.data, 1) = <<0, 0, 0, 255>>
  /\ PixelAt(result.data, 0)[1] > 0

\* The linear colour of input pixel p of the settled call before encoding.
FinalRgbAt(p) ==
  PixelColour(matrices, PixelAt(args.imageData.data, p), args.params, draws,
              2 * p).rgb

\* C15: every colour byte written is an integer in 0..255: the encoded value
\* is clamped to [0, 1] before it is scaled, so a linear value of 1 or more
\* is stored as 255 and a linear value of 0 or less as 0.
C15_ChannelsClamped ==
  (ResolvedCall /\ WellFormed(args.imageData)) =>
    \A p \in PixelsIn(result.data) : \A k \in 1..3 :
      LET linear == FinalRgbAt(p)
          byte   == PixelAt(result.data, p)[k]
      IN  /\ byte \in 0..255
          /\ linearToSrgb(linear)[k] \in 0..SCALE
          /\ linear[k] >= SCALE => byte = 255
          /\ linear[k] <= 0 => byte = 0

\* A pixel with one channel above 1 stored as 255 and another below 0 stored
\* as 0.
C15_Witness ==
  /\ ResolvedCall
  /\ \E k \in 1..3 : FinalRgbAt(0)[k] > SCALE /\ result.data[k] = 255
  /\ \E k \in 1..3 : FinalRgbAt(0)[k] < 0 /\ result.data[k] = 0

\* The linear colour of input pixel p of the settled call, and its
\* attenuation at another depth in the call's water.
LinearAt(p) ==
  srgbToLinear([k \in 1..3 |->
                  (PixelAt(args.imageData.data, p)[k] * SCALE) \div 255])

AttenuatedAtDepth(p, depthFeet) ==
  applyUnderwaterAttenuation(LinearAt(p), depthFeet,
                             args.params.waterProperties)

\* The smallest attenuated value at which the arithmetic of this module
\* still separates the depths of the model: 10^-4.
Resolvable(value) == value >= SCALE \div 10000

\* C16 as stated: for fixed clarity and salinity >= 0 and depths
\* 0 <= d1 < d2 every attenuated channel at d2 is strictly smaller than at d1
\* (compared wherever the value at d1 is 0 because the channel is 0, or is
\* large enough to be resolved).
C16_StrictlyDecreasing ==
  (pc = "settled" /\ args.params.waterProperties.salinity >= 0) =>
    \A lin \in {LinearAt(0)} : \A a2 \in {AttenuatedAt(0)} :
    \A d1 \in RangeDepths :
      (0 <= d1 /\ d1 < args.params.depth) =>
        \A a1 \in {AttenuatedAtDepth(0, d1)} : \A k \in 1..3 :
          (lin[k] = 0 \/ Resolvable(a1[k])) => a2[k] < a1[k]

\* C16: for fixed clarity and salinity >= 0 and depths 0 <= d1 < d2 each
\* attenuated channel never grows with depth, is strictly smaller at d2
\* wherever its value at d1 is positive (and resolved), stays 0 where the
\* channel is 0, and at depth 0 equals the unattenuated linear value.
C16_DecreasingWherePositive ==
  (pc = "settled" /\ args.params.waterProperties.salinity >= 0) =>
    \A lin \in {LinearAt(0)} : \A a2 \in {AttenuatedAt(0)} :
      /\ \A d1 \in RangeDepths :
           (0 <= d1 /\ d1 < args.params.depth) =>
             \A a1 \in {AttenuatedAtDepth(0, d1)} : \A k \in 1..3 :
               /\ a2[k] <= a1[k]
               /\ Resolvable(a1[k]) => a2[k] < a1[k]
               /\ lin[k] = 0 => a2[k] = 0
      /\ args.params.depth = 0 => a2 = lin

\* The orange pixel at 20 ft: every channel is positive and below its value
\* at the surface.
C16_Witness ==
  /\ pc = "settled"
  /\ args.imageData.data = <<200, 120, 40, 128>>
  /\ args.params.depth = 20 * SCALE
  /\ \A k \in 1..3 :
       /\ AttenuatedAt(0)[k] > 0
       /\ AttenuatedAt(0)[k] < AttenuatedAtDepth(0, 0)[k]

\* The one-pixel images of pure red and pure blue.
PureRed == [width |-> 1, height |-> 1, data |-> <<255, 0, 0, 255>>]

PureBlue == [width |-> 1, height |-> 1, data |-> <<0, 0, 255, 255>>]

\* The settled call is the scenario of the pure red pixel: clear fresh
\* water, 20 ft, bright light, a dichromatic species, no backscatter.
RedAtTwentyFeet ==
  /\ ResolvedCall
  /\ args.imageData = PureRed
  /\ args.params = [speciesId |-> "largemouth-bass", depth |-> 20 * SCALE,
                    waterProperties |-> [clarity |-> WATER_CLARITY_PRESETS[1],
                                         salinity |-> 0],
                    lightCondition |-> LIGHT_CONDITIONS[1],
                    backscatter |-> FALSE]

\* The salinities 0, 10, 20, 30, 40 ppt.
SalinitySteps == {s * 10 * SCALE : s \in 0..4}

\* C17: in clear water the red output of a pure red pixel at 20 ft is a
\* smaller fraction of its value at depth 0 than the blue output of a pure
\* blue pixel is of its value at depth 0 (bright light, dichromatic
\* species); and whenever the clarity has kR > kG > kB, the salinity-adjusted
\* coefficients keep that order for salinities from 0 to 40 ppt.
C17_RedFadesFasterThanBlue ==
  /\ RedAtTwentyFeet =>
       \A atSurface \in {[args.params EXCEPT !.depth = 0]} :
       \A red0 \in {FreshResult(PureRed, atSurface, <<>>).data[1]} :
       \A blue0 \in {FreshResult(PureBlue, atSurface, <<>>).data[3]} :
       \A blue20 \in {FreshResult(PureBlue, args.params, <<>>).data[3]} :
         /\ red0 > 0
         /\ blue0 > 0
         /\ result.data[1] * blue0 < blue20 * red0
  /\ pc = "settled" =>
       \A baseK \in {args.params.waterProperties.clarity} :
         (baseK.kR > baseK.kG /\ baseK.kG > baseK.kB) =>
           \A salinity \in SalinitySteps \cup
                           ({args.params.waterProperties.salinity}
                              \cap (0..(40 * SCALE))) :
             \A k \in {calculateSalinityAdjustedK(baseK, salinity)} :
               k.kR > k.kG /\ k.kG > k.kB

\* The scenario, with a red output that is still visible at 20 ft.
C17_Witness ==
  /\ RedAtTwentyFeet
  /\ result.data[1] > 0
  /\ result.data[1] < FreshResult(PureRed, [args.params EXCEPT !.depth = 0],
                                  <<>>).data[1]

\* The three bytes a linear colour is encoded to.
EncodedBytes(linear) ==
  [k \in 1..3 |-> StoreByte(Round255(linearToSrgb(linear)[k]))]

\* The haze intensity min(depth / 30, 1) x 0.15 and the blend of a colour
\* toward the haze colour (0.4, 0.5, 0.6) by an intensity.
HazeIntensity(depthFeet) == MulFix(Min2(depthFeet \div 30, SCALE), 150000)

HazeBlend(rgb, intensity) ==
  [k \in 1..3 |->
     MulFix(rgb[k], SCALE - intensity)
     + MulFix(<<400000, 500000, 600000>>[k], intensity)]

\* C18: a call applies one regime to the saturation-adjusted colour: with
\* backscatter disabled none, and the colour is encoded as it is; with
\* backscatter at a depth up to and including 100 ft the blend toward the
\* haze colour by min(depth/30, 1) x 0.15, which is 0 at depth 0 and at most
\* 0.15, without random draws; with backscatter beyond 100 ft the deep-sea
\* decay with its two random draws, and no haze.
C18_OneBackscatterRegime ==
  ResolvedCall =>
    \A speciesRgb \in {PixelColour(matrices, PixelAt(args.imageData.data, 0),
                                   [args.params EXCEPT !.backscatter = FALSE],
                                   <<>>, 0).rgb} :
    \A colour \in {<<result.data[1], result.data[2], result.data[3]>>} :
    \A intensity \in {HazeIntensity(args.params.depth)} :
      /\ ~args.params.backscatter =>
           (draws = <<>> /\ colour = EncodedBytes(speciesRgb))
      /\ (args.params.backscatter /\ args.params.depth <= 100 * SCALE) =>
           /\ draws = <<>>
           /\ intensity <= 150000
           /\ args.params.depth = 0 => intensity = 0
           /\ colour = EncodedBytes(HazeBlend(speciesRgb, intensity))
      /\ (args.params.backscatter /\ args.params.depth > 100 * SCALE) =>
           /\ Len(draws) = 2
           /\ colour = EncodedBytes(addBioluminescentEffects(
                                      speciesRgb, args.params.depth, draws, 0).rgb)

\* A call with backscatter at exactly 100 ft: no random draw, the full haze
\* intensity of 0.15, and a colour the haze has changed.
C18_Witness ==
  /\ ResolvedCall
  /\ args.params.backscatter
  /\ args.params.depth = 100 * SCALE
  /\ draws = <<>>
  /\ HazeIntensity(args.params.depth) = 150000
  /\ \E k \in 1..3 :
       result.data[k] # FreshResult(args.imageData,
                                    [args.params EXCEPT !.backscatter = FALSE],
                                    <<>>).data[k]

\* A numeric parameter is out of its range: a negative depth, a salinity
\* outside 0..40 ppt, rodBlend or saturation outside [0, 1].
OutOfRange(params) ==
  \/ params.depth < 0
  \/ params.waterProperties.salinity < 0
  \/ params.waterProperties.salinity > 40 * SCALE
  \/ params.lightCondition.rodBlend < 0
  \/ params.lightCondition.rodBlend > SCALE
  \/ params.lightCondition.saturation < 0
  \/ params.lightCondition.saturation > SCALE

\* C19: in a browser a call with an out-of-range numeric parameter raises no
\* error: it returns a buffer of the input's size whose colour bytes are
\* integers in 0..255 and whose alpha bytes are the input's.
C19_OutOfRangeCompletes ==
  (pc = "settled" /\ canvas /\ OutOfRange(args.params)) =>
    /\ result.status = "resolved"
    /\ result.width = args.imageData.width
    /\ result.height = args.imageData.height
    /\ Len(result.data) = Len(args.imageData.data)
    /\ \A k \in 1..Len(result.data) :
         IF k % 4 = 0 THEN result.data[k] = args.imageData.data[k]
         ELSE result.data[k] \in 0..255

\* A call above the surface in water of 50 ppt with rodBlend and saturation
\* out of range that returned a visible pixel.
C19_Witness ==
  /\ ResolvedCall
  /\ args.params.depth < 0
  /\ args.params.waterProperties.salinity > 40 * SCALE
  /\ args.params.lightCondition.saturation > SCALE
  /\ args.params.lightCondition.rodBlend < 0
  /\ \E k \in 1..3 : result.data[k] \in 1..254

\* The four environments and the list each getter returns.
Environments == {"freshwater", "saltwater", "anadromous", "deep-sea"}

EnvironmentList(environment) ==
  CASE environment = "freshwater" -> getFreshwaterSpecies
    [] environment = "saltwater"  -> getSaltwaterSpecies
    [] environment = "anadromous" -> getAnadromousSpecies
    [] environment = "deep-sea"   -> getDeepSeaSpecies

\* C20: each environment getter returns species of its environment only,
\* the four lists together are as long as the table, and the species of
\* every call with a listed id has that id alone in the table, is what
\* getSpeciesById returns, and stands in the list of its environment once,
\* at the rank it has among the species of that environment in the table,
\* and in no other list.
C20_EnvironmentGettersPartition ==
  \A lists \in {[e \in Environments |-> EnvironmentList(e)]} :
    /\ \A e \in Environments : \A i \in 1..Len(lists[e]) :
         lists[e][i].environment = e
    /\ Len(lists["freshwater"]) + Len(lists["saltwater"])
         + Len(lists["anadromous"]) + Len(lists["deep-sea"])
         = Len(FISH_SPECIES)
    /\ (pc = "settled" /\ getSpeciesById(args.params.speciesId) # <<>>) =>
         \A species \in {getSpeciesById(args.params.speciesId)[1]} :
         \A at \in {{i \in 1..Len(FISH_SPECIES) :
                       FISH_SPECIES[i].id = args.params.speciesId}} :
           /\ Cardinality(at) = 1
           /\ species.id = args.params.speciesId
           /\ species.environment \in Environments
           /\ \A e \in Environments :
                \A found \in {{i \in 1..Len(lists[e]) :
                                 lists[e][i].id = species.id}} :
                  IF e = species.environment
                  THEN /\ Cardinality(found) = 1
                       /\ \A i \in found : \A t \in at :
                            /\ lists[e][i] = species
                            /\ i = Cardinality({j \in 1..t :
                                     FISH_SPECIES[j].environment = e})
                  ELSE found = {}

\* A call for the striped bass, the second of the four anadromous species of
\* the table.
C20_Witness ==
  /\ pc = "settled"
  /\ args.params.speciesId = "striped-bass"
  /\ Len(getAnadromousSpecies) = 4
  /\ getAnadromousSpecies[2].id = "striped-bass"
  /\ getAnadromousSpecies[1].id = "rainbow-trout"

\* ------------------------------------------------------------------
\* The two transfer functions, one after the other.
\* ------------------------------------------------------------------

\* How finely [0, 1] is sampled.
GridSteps == 500

\* The sampled channel values: an even grid over [0, 1], and every value
\* around the two segment thresholds, 0.0031308 and 0.04045.
ChannelGrid ==
  {(k * SCALE) \div GridSteps : k \in 0..GridSteps}
    \cup (3100..3160) \cup (40420..40480)

\* A linear value is encoded and decoded again.
RoundTripLinear(x) ==
  /\ transfer.from = "none"
  /\ \E mid \in {linearToSrgb(<<x, x, x>>)[1]} :
       transfer' = [from |-> "linear", x |-> x, mid |-> mid,
                    back |-> srgbToLinear(<<mid, mid, mid>>)[1]]
  /\ UNCHANGED <<processorVars, pageVars, viewerVars>>

\* An encoded value is decoded and encoded again.
RoundTripEncoded(c) ==
  /\ transfer.from = "none"
  /\ \E mid \in {srgbToLinear(<<c, c, c>>)[1]} :
       transfer' = [from |-> "encoded", x |-> c, mid |-> mid,
                    back |-> linearToSrgb(<<mid, mid, mid>>)[1]]
  /\ UNCHANGED <<processorVars, pageVars, viewerVars>>

\* The next value is taken up.
ForgetTransfer ==
  /\ transfer.from # "none"
  /\ transfer' = NoTransfer
  /\ UNCHANGED <<processorVars, pageVars, viewerVars>>

NextTransfer ==
  \/ \E x \in ChannelGrid : RoundTripLinear(x)
  \/ \E c \in ChannelGrid : RoundTripEncoded(c)
  \/ ForgetTransfer

SpecTransfer == Init /\ [][NextTransfer]_vars

\* 1e-4 on the scale of the model.
RoundTripTolerance == SCALE \div 10000

\* C21: encoding and then decoding a linear value in [0, 1], or decoding and
\* then encoding an encoded value in [0, 1], gives the value back to within
\* 1e-4, at the segment thresholds as everywhere else.
C21_TransferRoundTrip ==
  transfer.from # "none" =>
    Abs(transfer.back - transfer.x) < RoundTripTolerance

\* Both directions have been taken at a threshold: the encoded value 0.04045
\* went down the linear segment and came back, and so did the linear value
\* just above 0.0031308 through the power segment.
C21_Witness ==
  \/ /\ transfer.from = "encoded"
     /\ transfer.x = 40450
     /\ transfer.mid > 3000
     /\ Abs(transfer.back - 40450) < RoundTripTolerance
  \/ /\ transfer.from = "linear"
     /\ transfer.x = 3131
     /\ transfer.mid > 40000
     /\ Abs(transfer.back - 3131) < RoundTripTolerance

\* ------------------------------------------------------------------
\* The page: Home, its auto-trigger effect and the control panel.
\* ------------------------------------------------------------------

\* species?.salinity?.typical || 0, in parts per thousand.
getDefaultSalinityForSpecies(speciesId) ==
  LET species == getSpeciesById(speciesId)
  IN  IF species = <<>> THEN 0 ELSE species[1].salinity.typical * SCALE

\* species ? species.environment !== 'freshwater' : false
shouldShowSalinitySlider(speciesId) ==
  LET species == getSpeciesById(speciesId)
  IN  IF species = <<>> THEN FALSE
      ELSE species[1].environment # "freshwater"

\* The two presets a slider value (0..100) lies between, and the blend
\* between them in hundredths: scaledValue = value / 100 * (length - 1),
\* lowerIndex its floor, upperIndex clamped to the last preset.
SliderSpan(presets, value) ==
  LET scaled100 == value * (Len(presets) - 1)
      lowerIndex == scaled100 \div 100
      upperIndex == Min2(lowerIndex + 1, Len(presets) - 1)
  IN  [lower |-> presets[lowerIndex + 1], upper |-> presets[upperIndex + 1],
       blend |-> scaled100 % 100]

\* lower + (upper - lower) * blend
Interpolated(lower, upper, blend) == lower + ((upper - lower) * blend) \div 100

handleClarityChange(params, value) ==
  LET span == SliderSpan(WATER_CLARITY_PRESETS, value)
      interpolatedClarity ==
        [name |-> span.lower.name,
         kR |-> Interpolated(span.lower.kR, span.upper.kR, span.blend),
         kG |-> Interpolated(span.lower.kG, span.upper.kG, span.blend),
         kB |-> Interpolated(span.lower.kB, span.upper.kB, span.blend)]
  IN  [params EXCEPT !.waterProperties.clarity = interpolatedClarity]

handleLightChange(params, value) ==
  LET span == SliderSpan(LIGHT_CONDITIONS, value)
      interpolatedLight ==
        [name |-> span.lower.name,
         rodBlend |-> Interpolated(span.lower.rodBlend, span.upper.rodBlend,
                                   span.blend),
         saturation |-> Interpolated(span.lower.saturation,
                                     span.upper.saturation, span.blend)]
  IN  [params EXCEPT !.lightCondition = interpolatedLight]

\* A faulty handler: the slider's value is taken for metres and converted.
handleDepthChange_FromMetres(params, depth) ==
  [params EXCEPT !.depth = depth * 3280000]

\* The slider's value is in whole feet.
handleDepthChange(params, depth) == [params EXCEPT !.depth = depth * SCALE]

\* A faulty handler: the salinity of the previous species is kept.
handleSpeciesChange_KeepsSalinity(params, speciesId) ==
  [params EXCEPT !.speciesId = speciesId]

handleSpeciesChange(params, speciesId) ==
  [params EXCEPT !.speciesId = speciesId,
                 !.waterProperties.salinity =
                    getDefaultSalinityForSpecies(speciesId)]

\* The slider's value is in whole parts per thousand.
handleSalinityChange(params, salinity) ==
  [params EXCEPT !.waterProperties.salinity = salinity * SCALE]

handleBackscatterChange(params, backscatter) ==
  [params EXCEPT !.backscatter = backscatter]

resetToDefaults == DEFAULT_PARAMS

\* The ids setTimeout has handed out and not yet run or cleared.
TimerIds(pending) == {t.id : t \in pending}

\* A faulty effect: it returns no cleanup, so a timer once set stays set.
AutoEffect_NoCleanup(prev, next) ==
  IF /\ prev.params = next.params
     /\ prev.currentImage = next.currentImage
     /\ prev.processor = next.processor
     /\ prev.isProcessing = next.isProcessing
  THEN [timers |-> timers, effect |-> effect]
  ELSE LET timeoutId ==
             CHOOSE i \in 1..(Cardinality(timers) + 1) :
               i \notin TimerIds(timers)
       IN  IF next.currentImage = <<>> \/ ~next.processor
              \/ next.isProcessing
           THEN [timers |-> timers, effect |-> 0]
           ELSE [timers |-> timers \cup
                            {[id |-> timeoutId,
                              currentImage |-> next.currentImage[1],
                              params |-> next.params]},
                 effect |-> timeoutId]

\* The auto-trigger effect after a render that took Home from prev to next:
\* when one of its dependencies changed, the cleanup of the effect's last
\* run clears its timer, and the effect runs again; it returns early
\* without an image, without a processor or while isProcessing, and
\* otherwise sets a timer whose callback holds this render's currentImage
\* and params.
AutoEffect(prev, next) ==
  IF /\ prev.params = next.params
     /\ prev.currentImage = next.currentImage
     /\ prev.processor = next.processor
     /\ prev.isProcessing = next.isProcessing
  THEN [timers |-> timers, effect |-> effect]
  ELSE LET cleared == {t \in timers : t.id # effect}
           timeoutId ==
             CHOOSE i \in 1..(Cardinality(cleared) + 1) :
               /\ i \notin TimerIds(cleared)
               /\ \A j \in 1..(Cardinality(cleared) + 1) :
                    j \notin TimerIds(cleared) => i <= j
       IN  IF next.currentImage = <<>> \/ ~next.processor
              \/ next.isProcessing
           THEN [timers |-> cleared, effect |-> 0]
           ELSE [timers |-> cleared \cup
                            {[id |-> timeoutId,
                              currentImage |-> next.currentImage[1],
                              params |-> next.params]},
                 effect |-> timeoutId]

\* A render commits the state next, and the effects of that render run.
Commit(next) ==
  /\ home' = next
  /\ \E e \in {AutoEffect(home, next)} :
       /\ timers' = e.timers
       /\ effect' = e.effect

\* No handler is between its call of processImage and its continuation,
\* and every update set so far has been rendered.
Settled == run.phase # "awaiting" /\ queued = home

\* onParamsChange(next), that is setParams(next), from an input event of
\* the control panel: the render follows within the event.
OnParamsChange(next) ==
  /\ Settled
  /\ next # home.params
  /\ queued' = [home EXCEPT !.params = next]
  /\ Commit([home EXCEPT !.params = next])
  /\ UNCHANGED <<processorVars, transfer, run, uploads, viewerVars>>

\* The values the sliders are moved to: their ends, and values between.
ClarityStops == {0, 30, 50, 80, 100}
LightStops == {0, 50, 70, 100}
DepthStops == {0, 1, 15, 30}
SalinityStops == {0, 20, 40}

SpeciesChange(speciesId) ==
  OnParamsChange(handleSpeciesChange(home.params, speciesId))

ClarityChange(value) ==
  OnParamsChange(handleClarityChange(home.params, value))

\* The salinity slider is rendered only when shouldShowSalinitySlider.
SalinityChange(salinity) ==
  /\ shouldShowSalinitySlider(home.params.speciesId)
  /\ OnParamsChange(handleSalinityChange(home.params, salinity))

DepthChange(depth) ==
  OnParamsChange(handleDepthChange(home.params, depth))

LightChange(value) ==
  OnParamsChange(handleLightChange(home.params, value))

BackscatterChange(backscatter) ==
  OnParamsChange(handleBackscatterChange(home.params, backscatter))

Reset == OnParamsChange(resetToDefaults)

\* The control panel, operated before an image is chosen.
NextPanel ==
  \/ \E i \in 1..Len(FISH_SPECIES) : SpeciesChange(FISH_SPECIES[i].id)
  \/ \E value \in ClarityStops : ClarityChange(value)
  \/ \E salinity \in SalinityStops : SalinityChange(salinity)
  \/ \E depth \in DepthStops : DepthChange(depth)
  \/ \E value \in LightStops : LightChange(value)
  \/ \E backscatter \in BOOLEAN : BackscatterChange(backscatter)
  \/ Reset

SpecPanel == Init /\ [][NextPanel]_vars

\* low <= value <= high
Within(value, low, high) == low <= value /\ value <= high

\* C25: whatever is done at the control panel, the parameters stay in the
\* ranges of its controls: depth in [0, 30] ft, salinity in [0, 40] ppt,
\* rodBlend in [0.05, 0.75], saturation in [0.32, 1.0], each attenuation
\* coefficient between the clear and the muddy preset; so the depth never
\* reaches the deep-sea regime beyond 100 ft.
C25_ParamsWithinControls ==
  LET p == home.params
      clear == WATER_CLARITY_PRESETS[1]
      muddy == WATER_CLARITY_PRESETS[3]
  IN  /\ Within(p.depth, 0, 30 * SCALE)
      /\ Within(p.waterProperties.salinity, 0, 40 * SCALE)
      /\ Within(p.lightCondition.rodBlend, 50000, 750000)
      /\ Within(p.lightCondition.saturation, 320000, 1000000)
      /\ Within(p.waterProperties.clarity.kR, clear.kR, muddy.kR)
      /\ Within(p.waterProperties.clarity.kG, clear.kG, muddy.kG)
      /\ Within(p.waterProperties.clarity.kB, clear.kB, muddy.kB)
      /\ ~(p.depth > 100 * SCALE)

\* Every control has been moved off its default, the sliders to their far
\* ends, for a deep-sea species.
C25_Witness ==
  LET p == home.params
  IN  /\ getSpeciesById(p.speciesId)[1].environment = "deep-sea"
      /\ p.depth = 30 * SCALE
      /\ p.waterProperties.salinity = 40 * SCALE
      /\ p.waterProperties.clarity.kR = WATER_CLARITY_PRESETS[3].kR
      /\ p.lightCondition.rodBlend = LIGHT_CONDITIONS[3].rodBlend
      /\ p.backscatter

\* C29: whatever is done at the control panel, the salinity is 0 whenever
\* the selected species is a freshwater species or is not in the table.
C29_FreshwaterSalinityZero ==
  ~shouldShowSalinitySlider(home.params.speciesId)
    => home.params.waterProperties.salinity = 0

\* A freshwater species has been selected after the controls were moved,
\* and the salinity is 0 again.
C29_Witness ==
  /\ home.params.speciesId = "goldfish"
  /\ home.params.depth = 30 * SCALE
  /\ home.params.waterProperties.salinity = 0

\* ------------------------------------------------------------------
\* The page with an image: image selection, the debounced auto-trigger,
\* the Process Image button.
\* ------------------------------------------------------------------

\* At most this many image loads are under way at once.
MaxUploads == 1

\* The images chosen: one pixel each, white and translucent orange.
PageImages ==
  {[width |-> 1, height |-> 1, data |-> PixelRun(s, 1)] : s \in {1, 3}}

\* A handler sets isProcessing and calls processor.processImage(imageData,
\* params), which runs to its return or throw before the handler's await
\* suspends it; the continuation follows in a later step.  The record
\* notes whether another timer was pending when the handler began.
Start(kind, imageData, params, timerBefore) ==
  /\ \E r \in {processImage(Self, tables, imageData, params, <<>>)} :
       /\ matrices' = r.self.matrices
       /\ canvasWidth' = r.self.canvasWidth
       /\ canvasHeight' = r.self.canvasHeight
       /\ run' = [phase |-> "awaiting", kind |-> kind,
                  imageData |-> <<imageData>>, params |-> params,
                  outcome |-> r.result, timerBefore |-> timerBefore]
  /\ UNCHANGED <<tables, canvas, pc, args, result, draws, oobReads,
                 priorType, transfer, viewerVars>>

\* The effect that constructs the processor after the first render.
Mount ==
  /\ Settled
  /\ ~home.processor
  /\ queued' = [home EXCEPT !.processor = TRUE]
  /\ Commit([home EXCEPT !.processor = TRUE])
  /\ UNCHANGED <<processorVars, transfer, run, uploads, viewerVars>>

\* A file is chosen: its img.onload holds the handleImageSelect of the
\* last render, and with it that render's processor and params.
BeginUpload ==
  /\ run.phase # "awaiting"
  /\ Cardinality(uploads) < MaxUploads
  /\ uploads' = uploads \cup {[processor |-> home.processor,
                                params |-> home.params]}
  /\ UNCHANGED <<processorVars, transfer, home, queued, timers, effect, run,
                 viewerVars>>

\* img.onload calls handleImageSelect(imageData): the image is set, the
\* result cleared and, with a processor, a run started at once.
handleImageSelect(upload, imageData) ==
  /\ run.phase # "awaiting"
  /\ upload \in uploads
  /\ uploads' = uploads \ {upload}
  /\ IF upload.processor
     THEN /\ queued' = [queued EXCEPT !.currentImage = <<imageData>>,
                                       !.result = <<>>,
                                       !.isProcessing = TRUE]
          /\ Start("select", imageData, upload.params, timers # {})
     ELSE /\ queued' = [queued EXCEPT !.currentImage = <<imageData>>,
                                       !.result = <<>>]
          /\ UNCHANGED <<processorVars, transfer, run, viewerVars>>
  /\ UNCHANGED <<home, timers, effect>>

\* A pending timer of the auto-trigger effect runs its callback, with the
\* currentImage and params of the render that set it.
TimerFires(timer) ==
  /\ run.phase # "awaiting"
  /\ timer \in timers
  /\ timers' = timers \ {timer}
  /\ queued' = [queued EXCEPT !.isProcessing = TRUE]
  /\ Start("auto", timer.currentImage, timer.params,
           timers # {timer})
  /\ UNCHANGED <<home, effect, uploads>>

\* A click on Process Image, which is disabled while isProcessing or
\* without an image: setIsProcessing(true) is rendered within the event.
handleSimulate ==
  /\ Settled
  /\ ~home.isProcessing
  /\ home.currentImage # <<>>
  /\ home.processor
  /\ queued' = [home EXCEPT !.isProcessing = TRUE]
  /\ Commit([home EXCEPT !.isProcessing = TRUE])
  /\ Start("manual", home.currentImage[1], home.params, timers # {})
  /\ UNCHANGED uploads

\* The updates set so far are rendered.
Render ==
  /\ queued # home
  /\ Commit(queued)
  /\ UNCHANGED <<processorVars, transfer, queued, run, uploads, viewerVars>>

\* A faulty continuation: isProcessing is reset only after a success.
AfterAwait_NoFinally(state, handler) ==
  IF handler.outcome.status = "resolved"
  THEN [state EXCEPT
          !.result = <<[originalImage |-> handler.imageData[1],
                        lureVisionImage |->
                          [width |-> handler.outcome.width,
                           height |-> handler.outcome.height,
                           data |-> handler.outcome.data]]>>,
          !.isProcessing = FALSE]
  ELSE state

\* A faulty continuation: what came of a failed call is stored too.
AfterAwait_StoresFailure(state, handler) ==
  [state EXCEPT
     !.result = <<[originalImage |-> handler.imageData[1],
                   lureVisionImage |->
                     [width |-> handler.outcome.width,
                      height |-> handler.outcome.height,
                      data |-> handler.outcome.data]]>>,
     !.isProcessing = FALSE]

\* What the continuation leaves set: the result, when processImage
\* returned, and isProcessing false in every case.
AfterAwait(state, handler) ==
  [state EXCEPT
     !.result = IF handler.outcome.status = "resolved"
                THEN <<[originalImage |-> handler.imageData[1],
                        lureVisionImage |->
                          [width |-> handler.outcome.width,
                           height |-> handler.outcome.height,
                           data |-> handler.outcome.data]]>>
                ELSE @,
     !.isProcessing = FALSE]

\* The handler resumes after its await: try's remainder or catch, then
\* finally.  After a click the render follows at once.
Finish ==
  /\ run.phase = "awaiting"
  /\ run' = [run EXCEPT !.phase = "done"]
  /\ \E next \in {AfterAwait(queued, run)} :
       /\ queued' = next
       /\ IF run.kind = "manual" THEN Commit(next)
          ELSE UNCHANGED <<home, timers, effect>>
  /\ UNCHANGED <<processorVars, transfer, uploads, viewerVars>>

NextPage ==
  \/ BeginUpload
  \/ \E upload \in uploads : \E imageData \in PageImages :
       handleImageSelect(upload, imageData)
  \/ DepthChange(30)
  \/ Reset
  \/ handleSimulate
  \/ Mount
  \/ \E timer \in timers : TimerFires(timer)
  \/ Render
  \/ Finish

SpecPage == Init /\ [][NextPage]_vars

\* The browser runs what is due: the mount effect, the continuation of a
\* suspended handler, the render of pending updates.
SpecPageFair ==
  /\ SpecPage
  /\ WF_vars(Mount)
  /\ WF_vars(Render)
  /\ WF_vars(Finish)

\* A render shows other params or another image than the one before.
ChangeRendered ==
  home'.params # home.params \/ home'.currentImage # home.currentImage

\* A timer's callback starts its run in this step.
AutoRunStarts ==
  run.phase # "awaiting" /\ run'.phase = "awaiting" /\ run'.kind = "auto"

RunEnds == run.phase = "awaiting" /\ run'.phase = "done"

\* A stored result holds a whole output buffer for its original image.
CompleteResult(stored) ==
  \A r \in {stored[i] : i \in 1..Len(stored)} :
    /\ r.lureVisionImage.width = r.originalImage.width
    /\ r.lureVisionImage.height = r.originalImage.height
    /\ Len(r.lureVisionImage.data) =
         r.originalImage.width * r.originalImage.height * 4

\* C23: when processImage throws in a run started by the timer or by the
\* Process Image button, the continuation leaves the result as it was; a
\* result is set only by the continuation of a call that returned, and
\* what is stored is a whole buffer of the size of its original image.
C23_FailureKeepsResult ==
  /\ [][RunEnds /\ run.kind \in {"auto", "manual"}
          /\ run.outcome.status = "rejected"
          => queued'.result = queued.result /\ home'.result = home.result]_vars
  /\ [][queued'.result # queued.result /\ queued'.result # <<>>
          => RunEnds /\ run.outcome.status = "resolved"]_vars
  /\ [](CompleteResult(home.result) /\ CompleteResult(queued.result))

\* A click on Process Image whose processImage call threw has run to its
\* end: the result is as it was and isProcessing is false again.
C23_Witness ==
  /\ run.phase = "done"
  /\ run.kind = "manual"
  /\ run.outcome.status = "rejected"
  /\ run.outcome.error = "Canvas not available"
  /\ home.currentImage # <<>>
  /\ home.result = <<>>
  /\ ~home.isProcessing

\* C24: every handler that set isProcessing and awaits processImage comes
\* to its finally and sets isProcessing false, whether the call returned or
\* threw; and unless images keep being selected for ever, an isProcessing
\* that was rendered true is rendered false again, so that the auto-trigger
\* is not held off for good.
C24_ProcessingEnds ==
  /\ (run.phase = "awaiting") ~> (run.phase = "done" /\ ~queued.isProcessing)
  /\ (<>[][uploads' = uploads]_vars)
       => (home.isProcessing ~> ~home.isProcessing)

\* A click on Process Image has run to its end with a result: isProcessing,
\* rendered true meanwhile, is false again, and the effect has set a timer.
C24_Witness ==
  /\ run.phase = "done"
  /\ run.kind = "manual"
  /\ run.outcome.status = "resolved"
  /\ queued = home
  /\ ~home.isProcessing
  /\ home.result # <<>>
  /\ timers # {}

\* A render in this step shows a run's completion and nothing else of what
\* the effect depends on: isProcessing goes from true to false, the params,
\* the image and the processor are as they were.
CompletionRendered ==
  /\ home.isProcessing /\ ~home'.isProcessing
  /\ home'.params = home.params
  /\ home'.currentImage = home.currentImage
  /\ home'.processor = home.processor

\* The run that completes was started by the Process Image button for the
\* image and the params on display, it has set its result, and no timer
\* was pending when it began.
RunWasUpToDate ==
  /\ run.kind = "manual"
  /\ run.imageData = home.currentImage
  /\ run.params = home.params
  /\ run.outcome.status = "resolved"
  /\ ~run.timerBefore

\* C27 as stated, for a run that the button started: with the image and
\* the params unchanged, the completion of the run, once rendered, sets no
\* timer, so that no further run follows from it and the page comes to rest.
C27_CompletionSetsNoTimer ==
  [][CompletionRendered /\ RunWasUpToDate => timers' = {}]_vars

\* C28 as stated, its part about every moment: a result on display is the
\* result of the image on display, so that a run started for an earlier
\* image never replaces the result of a later one.
C28_ResultIsOfCurrentImage ==
  home.result # <<>> =>
    <<home.result[1].originalImage>> = home.currentImage

\* ------------------------------------------------------------------
\* The image viewer: the split position follows the pointer, one
\* animation frame at a time.
\* ------------------------------------------------------------------

\* A faulty request: a frame is requested at every move.
RequestFrame_AtEveryMove(ref, pending) ==
  LET id == CHOOSE i \in 1..(Cardinality(pending) + 1) : i \notin pending
  IN  [animationFrameRef |-> id, frames |-> pending \cup {id}]

\* if (animationFrameRef.current === null)
\*   animationFrameRef.current = requestAnimationFrame(updateSplitPosition)
\* A null ref is 0; requestAnimationFrame returns an id that is not pending.
RequestFrame(ref, pending) ==
  IF ref = 0
  THEN LET id == CHOOSE i \in 1..(Cardinality(pending) + 1) : i \notin pending
       IN  [animationFrameRef |-> id, frames |-> pending \cup {id}]
  ELSE [animationFrameRef |-> ref, frames |-> pending]

\* The part handleMouseMove and handleTouchMove share: they return early
\* unless the split view shows both images, and otherwise note the
\* pointer's position, in percent of the canvas width, and request a frame.
PointerMove(percentage) ==
  /\ mounted
  /\ viewMode = "split"
  /\ hasImages
  /\ pendingPositionRef' = percentage
  /\ \E r \in {RequestFrame(animationFrameRef, frames)} :
       /\ animationFrameRef' = r.animationFrameRef
       /\ frames' = r.frames
  /\ UNCHANGED <<processorVars, transfer, pageVars, splitPosition, viewMode,
                 mounted, hasImages>>

handleMouseMove(percentage) == PointerMove(percentage)

handleTouchMove(percentage) == PointerMove(percentage)

\* The browser runs a pending frame callback: updateSplitPosition.
updateSplitPosition(id) ==
  /\ id \in frames
  /\ frames' = frames \ {id}
  /\ IF pendingPositionRef # Undefined
     THEN /\ splitPosition' = pendingPositionRef
          /\ pendingPositionRef' = Undefined
     ELSE UNCHANGED <<splitPosition, pendingPositionRef>>
  /\ animationFrameRef' = 0
  /\ UNCHANGED <<processorVars, transfer, pageVars, viewMode, mounted,
                 hasImages>>

\* One of the three view buttons, shown when both images are there.
SetViewMode(mode) ==
  /\ mounted
  /\ hasImages
  /\ viewMode # mode
  /\ viewMode' = mode
  /\ UNCHANGED <<processorVars, transfer, pageVars, splitPosition,
                 animationFrameRef, pendingPositionRef, frames, mounted,
                 hasImages>>

\* Home renders the viewer with a result, or without one.
SetImages(present) ==
  /\ mounted
  /\ hasImages # present
  /\ hasImages' = present
  /\ UNCHANGED <<processorVars, transfer, pageVars, splitPosition, viewMode,
                 animationFrameRef, pendingPositionRef, frames, mounted>>

\* The viewer unmounts: the cleanup cancels the frame the ref names.
Unmount ==
  /\ mounted
  /\ mounted' = FALSE
  /\ frames' = IF animationFrameRef # 0 THEN frames \ {animationFrameRef}
                ELSE frames
  /\ UNCHANGED <<processorVars, transfer, pageVars, splitPosition, viewMode,
                 animationFrameRef, pendingPositionRef, hasImages>>

\* Pointer positions, in percent.
PointerStops == {0, 25, 100}

NextViewer ==
  \/ \E percentage \in PointerStops : handleMouseMove(percentage)
  \/ \E percentage \in PointerStops : handleTouchMove(percentage)
  \/ \E id \in frames : updateSplitPosition(id)
  \/ \E mode \in {"split", "original", "lure"} : SetViewMode(mode)
  \/ \E present \in BOOLEAN : SetImages(present)
  \/ Unmount

SpecViewer == Init /\ [][NextViewer]_vars

\* A frame callback runs in this step.
FrameRuns == frames' # frames /\ Cardinality(frames') < Cardinality(frames)
             /\ mounted'

\* C26: at most one frame callback is pending, and it is the one the ref
\* names; a pointer position that was noted and is not yet applied has a
\* frame pending for it; and the frame callback, when it runs, makes the
\* position noted last the split position and empties both slots, so that
\* the next move requests a frame again.
C26_OneFramePending ==
  /\ [](/\ Cardinality(frames) <= 1
        /\ (mounted => frames = IF animationFrameRef = 0 THEN {}
                                   ELSE {animationFrameRef})
        /\ (mounted /\ pendingPositionRef # Undefined => frames # {}))
  /\ [][FrameRuns =>
          /\ pendingPositionRef # Undefined
          /\ splitPosition' = pendingPositionRef
          /\ pendingPositionRef' = Undefined
          /\ animationFrameRef' = 0
          /\ frames' = {}]_vars

\* Two moves came before the frame ran: the frame has applied the second
\* position, and a later move has a new frame pending.
C26_Witness ==
  /\ splitPosition = 100
  /\ pendingPositionRef = 25
  /\ Cardinality(frames) = 1
  /\ animationFrameRef \in frames

====
